---------------------------- MODULE Spec2Model ----------------------------
(***************************************************************************)
(* A model of the sea-ice mushy-layer simulation (celestine / seaice3p):   *)
(* the phase classification and enthalpy method, the solver loops of the   *)
(* solver variants, the pre-solve stability checks, the batch runner and   *)
(* the order of the computations inside one timestep.                      *)
(*                                                                         *)
(* Numbers.  The program computes in floating point; the model computes    *)
(* in fixed point with Scale units to one, so 0.029 is 29 and 4.2 is 4200. *)
(* Phase boundaries are kept as exact fractions <<num, den>> (den > 0) of  *)
(* that unit and compared by cross-multiplication.  A floating point NaN   *)
(* is the value NaN: every comparison with it is false and arithmetic on   *)
(* it gives NaN, as in IEEE arithmetic.                                    *)
(***************************************************************************)
EXTENDS Integers, Sequences, FiniteSets, TLC

VARIABLES
    \* ---- the thermodynamic closure applied to one cell of the fields
    enthalpy, salt, gas,   \* bulk enthalpy, salt and gas of the cell
    phase_masks,           \* what get_phase_masks returned for the cell
    closure,               \* what the last closure call did
    \* ---- one solve() of one solver variant
    solver,                \* the solver variant and its configuration
    run,                   \* the loop state of solve()
    \* ---- the batch runner
    batch,
    \* ---- the computations inside one timestep / right hand side
    step,
    \* ---- one call of a function of the fields: its arguments and result
    call

phaseVars == <<enthalpy, salt, gas, phase_masks, closure>>
solveVars == <<solver, run>>
batchVars == <<batch>>
stepVars == <<step>>
callVars == <<call>>
vars == <<enthalpy, salt, gas, phase_masks, closure, solver, run, batch, step, call>>

-----------------------------------------------------------------------------
(* Fixed point arithmetic                                                  *)

Scale == 10 * 10 * 10

\* PhysicalParams defaults, in units of 1/Scale
expansion_coefficient == 29
concentration_ratio == 170
stefan_number == 4200

chi == expansion_coefficient
conc == concentration_ratio
St == stefan_number

NaN == -(Scale * Scale * Scale)
IsNaN(x) == x = NaN

\* floating point comparisons: false when an operand is NaN
Ge(a, b) == ~IsNaN(a) /\ ~IsNaN(b) /\ a >= b
Lt(a, b) == ~IsNaN(a) /\ ~IsNaN(b) /\ a < b
Le(a, b) == ~IsNaN(a) /\ ~IsNaN(b) /\ a <= b
Gt(a, b) == ~IsNaN(a) /\ ~IsNaN(b) /\ a > b

\* comparisons of a fixed point value x with a fraction f = <<num, den>>
FIsNaN(f) == f[2] = 0
FNaN == <<0, 0>>
GeF(x, f) == ~IsNaN(x) /\ ~FIsNaN(f) /\ x * f[2] >= f[1]
LtF(x, f) == ~IsNaN(x) /\ ~FIsNaN(f) /\ x * f[2] < f[1]
LeF(x, f) == ~IsNaN(x) /\ ~FIsNaN(f) /\ x * f[2] <= f[1]
GtF(x, f) == ~IsNaN(x) /\ ~FIsNaN(f) /\ x * f[2] > f[1]
\* the fraction rounded down to a fixed point value
Floor(f) == IF FIsNaN(f) THEN NaN ELSE f[1] \div f[2]

RECURSIVE ISqrtIn(_, _, _)
ISqrtIn(lo, hi, n) ==
    IF lo >= hi THEN lo
    ELSE LET mid == (lo + hi + 1) \div 2
         IN IF mid * mid <= n THEN ISqrtIn(mid, hi, n) ELSE ISqrtIn(lo, mid - 1, n)
\* the integer part of the square root of n >= 0
ISqrt(n) == ISqrtIn(0, 46340, n)

\* q <= k * sqrt(d), exactly, for k > 0 and d >= 0
LeKSqrt(q, k, d) ==
    IF q <= 0 THEN TRUE
    ELSE LET r == ISqrt(d)
         IN IF q <= k * r THEN TRUE
            ELSE IF q > k * (r + 1) THEN FALSE
            ELSE LET j == q - k * r
                 IN 2 * k * r * j + j * j <= k * k * (d - r * r)


RECURSIVE GCD(_, _)
GCD(a, b) == IF b = 0 THEN a ELSE GCD(b, a % b)

-----------------------------------------------------------------------------
(* Phase boundaries of the full closure (bulk gas included), per cell.     *)
(* numpy evaluates them elementwise, so the value at one cell depends on   *)
(* that cell's enthalpy, salt and gas alone.                               *)

\* eutectic_liquid_fraction = (salt + C) / (1 + C), as <<num, den>>
eutectic_liquid_fraction(s) == <<s + conc, Scale + conc>>

calculate_liquidus(s, g) ==
    IF g <= chi
    THEN <<-s, 1>>
    ELSE <<-(s * (Scale - chi) + conc * (g - chi)), Scale - chi>>

\* the eutectic with the latent heat term added instead of subtracted
eutectic_sign_slip(s, g) ==
    LET elf == eutectic_liquid_fraction(s)
    IN <<-Scale * elf[2] + St * (elf[2] - elf[1]), elf[2]>>

calculate_eutectic(s, g) ==
    LET elf == eutectic_liquid_fraction(s)
        is_sub == g * elf[2] <= chi * elf[1]
        k == GCD(Scale, St)
    IN IF is_sub
       THEN <<-Scale * elf[2] - St * (elf[2] - elf[1]), elf[2]>>
       ELSE <<-(Scale \div k) * ((Scale - g) * elf[2] + chi * elf[1])
                - (St \div k) * ((Scale - g) * elf[2] + elf[1] * (chi - Scale)),
              (Scale \div k) * elf[2]>>

\* the solidus without the sensible heat of the eutectic temperature
solidus_latent_only(s, g) ==
    IF g <= 0
    THEN <<-St, 1>>
    ELSE <<-(Scale - g) * St, Scale>>

calculate_solidus(s, g) ==
    IF g <= 0
    THEN <<-Scale - St, 1>>
    ELSE <<-(Scale - g) * (Scale + St), Scale>>

calculate_max_salt(g) ==
    IF g <= chi
    THEN <<Scale, 1>>
    ELSE <<Scale * (Scale - chi) - (g - chi) * (Scale + conc), Scale - chi>>

\* The saturation bulk gas of a cell.  The arrays are filled mask by mask
\* (liquid, mush, eutectic, solid), so where masks overlap the last one
\* written stands, and a cell in no mask keeps NaN.  The mush value
\* chi * (1 - (T - H) / St), T = (B - sqrt(B^2 - 4A)) / 2, is kept as its
\* B and discriminant.
calculate_saturation(h, s) ==
    LET liquidus == calculate_liquidus(s, 0)
        eutectic == calculate_eutectic(s, 0)
        solidus == calculate_solidus(s, 0)
        is_liquid == GeF(h, liquidus)
        is_mush == GeF(h, eutectic) /\ LtF(h, liquidus)
        is_eutectic == GeF(h, solidus) /\ LtF(h, eutectic)
        is_solid == LtF(h, solidus)
        B == h + conc + St
        A == conc * h - St * s
        D == B * B - 4 * A
    IN IF is_solid THEN [kind |-> "frac", f |-> <<0, 1>>, B |-> 0, D |-> 0, h |-> 0]
       ELSE IF is_eutectic
            THEN [kind |-> "frac", f |-> <<chi * (St + h + Scale), St>>,
                  B |-> 0, D |-> 0, h |-> 0]
       ELSE IF is_mush
            THEN IF D < 0 THEN [kind |-> "nan", f |-> FNaN, B |-> 0, D |-> 0, h |-> 0]
                 ELSE [kind |-> "mush", f |-> FNaN, B |-> B, D |-> D, h |-> h]
       ELSE IF is_liquid
            THEN [kind |-> "frac", f |-> <<chi, 1>>, B |-> 0, D |-> 0, h |-> 0]
       ELSE [kind |-> "nan", f |-> FNaN, B |-> 0, D |-> 0, h |-> 0]

\* gas <= saturation
gas_le_saturation(g, sat) ==
    CASE sat.kind = "nan" -> FALSE
      [] sat.kind = "frac" -> LeF(g, sat.f)
      [] sat.kind = "mush" ->
           \* g <= chi (1 - (T - h)/St)  <=>  chi B - 2 R <= chi sqrt(D),
           \* R = chi (St + h) - St g
           LeKSqrt(chi * sat.B - 2 * (chi * (St + sat.h) - St * g), chi, sat.D)

FullPhases == {"l", "L", "m", "M", "e", "E", "s", "S"}

\* the set of the eight masks of the full closure that are true at the cell
get_phase_masks(h, s, g) ==
    LET liquidus == calculate_liquidus(s, g)
        eutectic == calculate_eutectic(s, g)
        solidus == calculate_solidus(s, g)
        saturation == calculate_saturation(h, s)
        is_liquid == GeF(h, liquidus)
        is_mush == GeF(h, eutectic) /\ LtF(h, liquidus)
        is_eutectic == GeF(h, solidus) /\ LtF(h, eutectic)
        is_solid == LtF(h, solidus)
        is_sub == gas_le_saturation(g, saturation)
        is_super == ~is_sub
    IN {p \in FullPhases :
          \/ p = "l" /\ is_liquid /\ is_sub
          \/ p = "L" /\ is_liquid /\ is_super
          \/ p = "m" /\ is_mush /\ is_sub
          \/ p = "M" /\ is_mush /\ is_super
          \/ p = "e" /\ is_eutectic /\ is_sub
          \/ p = "E" /\ is_eutectic /\ is_super
          \/ p = "s" /\ is_solid /\ is_sub
          \/ p = "S" /\ is_solid /\ is_super}

-----------------------------------------------------------------------------
(* Phase boundaries of the reduced closure (enthalpy and salt only).       *)
(* celestine/enthalpy_method.py imports ReducedPhaseBoundaries from        *)
(* celestine/phase_boundaries.py, whose text here does not hold it: these  *)
(* definitions follow the specification of the reduced model.              *)

ReducedPhases == {"Liquid", "Mush", "Eutectic", "Solid"}

reduced_liquidus(s) == <<-s, 1>>

reduced_eutectic(s) == <<St * (s - Scale) - Scale * (Scale + conc), Scale + conc>>

reduced_solidus == <<-Scale - St, 1>>

reduced_get_phase_masks(h, s) ==
    {p \in ReducedPhases :
       \/ p = "Liquid" /\ GeF(h, reduced_liquidus(s))
       \/ p = "Mush" /\ GeF(h, reduced_eutectic(s)) /\ LtF(h, reduced_liquidus(s))
       \/ p = "Eutectic" /\ GeF(h, reduced_solidus) /\ LtF(h, reduced_eutectic(s))
       \/ p = "Solid" /\ LtF(h, reduced_solidus)}

-----------------------------------------------------------------------------
(* The reduced enthalpy method, per cell.  Every output array starts as    *)
(* NaN and is then written mask by mask in the order L, M, E, S.           *)

NNeg(x) == IF IsNaN(x) THEN NaN ELSE -x
NAdd(x, y) == IF IsNaN(x) \/ IsNaN(y) THEN NaN ELSE x + y
NSub(x, y) == IF IsNaN(x) \/ IsNaN(y) THEN NaN ELSE x - y
\* fixed point product and quotient
NMul(x, y) == IF IsNaN(x) \/ IsNaN(y) THEN NaN ELSE (x * y) \div Scale
NDiv(x, y) == IF IsNaN(x) \/ IsNaN(y) \/ y = 0 THEN NaN ELSE (x * Scale) \div y

reduced_calculate_solid_fraction(h, s, masks) ==
    LET A == St
        B == h - St - conc
        disc == B * B + 4 * A * (h + s)    \* B^2 - 4 A C with C = -(h + s)
        mush == IF disc < 0 THEN NaN
                ELSE (Scale * (-B - ISqrt(disc))) \div (2 * A)
    IN IF "Solid" \in masks THEN Scale
       ELSE IF "Eutectic" \in masks THEN (-Scale * (Scale + h)) \div St
       ELSE IF "Mush" \in masks THEN mush
       ELSE IF "Liquid" \in masks THEN 0
       ELSE NaN

reduced_calculate_temperature(h, solid_fraction, masks) ==
    IF "Solid" \in masks THEN NAdd(h, St)
    ELSE IF "Eutectic" \in masks THEN -Scale
    ELSE IF "Mush" \in masks THEN NAdd(h, NMul(solid_fraction, St))
    ELSE IF "Liquid" \in masks THEN h
    ELSE NaN

reduced_calculate_liquid_fraction(solid_fraction) == NSub(Scale, solid_fraction)

\* np.where(gas >= gas_sat, gas - gas_sat, 0) with gas_sat = chi * liquid_fraction
reduced_calculate_gas_fraction(g, liquid_fraction) ==
    LET gas_sat == NMul(chi, liquid_fraction)
    IN IF Ge(g, gas_sat) THEN NSub(g, gas_sat) ELSE 0

\* np.where(gas >= gas_sat, 1, gas / gas_sat)
reduced_calculate_dissolved_gas(g, liquid_fraction) ==
    LET gas_sat == NMul(chi, liquid_fraction)
    IN IF Ge(g, gas_sat) THEN Scale ELSE NDiv(g, gas_sat)

reduced_calculate_liquid_salinity(s, temperature, masks) ==
    IF "Solid" \in masks THEN Scale
    ELSE IF "Eutectic" \in masks THEN Scale
    ELSE IF "Mush" \in masks THEN NNeg(temperature)
    ELSE IF "Liquid" \in masks THEN s
    ELSE NaN

NoFields ==
    [temperature |-> NaN, liquid_fraction |-> NaN, gas_fraction |-> NaN,
     solid_fraction |-> NaN, liquid_salinity |-> NaN, dissolved_gas |-> NaN]

\* ReducedEnthalpyMethod.calculate_enthalpy_method: it has no raise statement,
\* so it always returns the six fields
reduced_calculate_enthalpy_method(h, s, g) ==
    LET masks == reduced_get_phase_masks(h, s)
        solid_fraction == reduced_calculate_solid_fraction(h, s, masks)
        liquid_fraction == reduced_calculate_liquid_fraction(solid_fraction)
        temperature == reduced_calculate_temperature(h, solid_fraction, masks)
    IN [raised |-> FALSE,
        fields |->
          [temperature |-> temperature,
           liquid_fraction |-> liquid_fraction,
           gas_fraction |-> reduced_calculate_gas_fraction(g, liquid_fraction),
           solid_fraction |-> solid_fraction,
           liquid_salinity |-> reduced_calculate_liquid_salinity(s, temperature, masks),
           dissolved_gas |-> reduced_calculate_dissolved_gas(g, liquid_fraction)]]

-----------------------------------------------------------------------------
(* The full enthalpy method, per cell.  Every output array starts as NaN   *)
(* and is then written mask by mask in the order l, L, m, M, e, E, s, S,   *)
(* so a later mask overwrites an earlier one.  Values are fixed point      *)
(* numbers; a square root of a negative number and a division by zero      *)
(* give NaN.  The root of the supersaturated mush quadratic is rounded:    *)
(* the rounding of its last place is an input, so that a denominator       *)
(* C - temperature that is zero in exact arithmetic can come out as zero   *)
(* or as one unit in the last place, as it does in floating point.         *)

Roundings == {-1, 0, 1}

\* gas fraction of a supersaturated liquid cell, (gas - chi) / (1 - chi)
liquid_gas_fraction(g) == ((g - chi) * Scale) \div (Scale - chi)

calculate_temperature(h, s, g, masks, rounding) ==
    LET coeff1 == h + conc + St
        coeff2 == conc * h - St * s
        disc_m == coeff1 * coeff1 - 4 * coeff2
        coeff3 == Scale - g
        coeff4 == ((conc + St) * (Scale - g) + chi * (s + conc)) \div Scale + h
        coeff5 == (conc * h - ((((Scale - chi) * St) \div 100) * s) \div 10
                     - (conc * St * (g - chi)) \div Scale) \div Scale
        disc_M == coeff4 * coeff4 - 4 * coeff3 * coeff5
    IN IF IsNaN(h) THEN NaN
       ELSE IF "S" \in masks THEN NAdd(NDiv(h, Scale - g), St)
       ELSE IF "s" \in masks THEN h + St
       ELSE IF "E" \in masks THEN -Scale
       ELSE IF "e" \in masks THEN -Scale
       ELSE IF "M" \in masks
            THEN IF disc_M < 0 \/ coeff3 = 0 THEN NaN
                 ELSE (Scale * (coeff4 - ISqrt(disc_M))) \div (2 * coeff3) + rounding
       ELSE IF "m" \in masks
            THEN IF disc_m < 0 THEN NaN ELSE (coeff1 - ISqrt(disc_m)) \div 2
       ELSE IF "L" \in masks THEN NDiv(h, Scale - liquid_gas_fraction(g))
       ELSE IF "l" \in masks THEN h
       ELSE NaN

calculate_liquid_fraction(h, s, g, temperature, masks) ==
    IF IsNaN(h) THEN NaN
    ELSE IF "S" \in masks \/ "s" \in masks THEN 0
    ELSE IF "E" \in masks
         THEN ((((Scale - g) * (Scale + St) + Scale * h) \div 100) * Scale)
                 \div ((St * (Scale - chi) - Scale * chi) \div 100)
    ELSE IF "e" \in masks THEN ((h + Scale) * Scale) \div St + Scale
    ELSE IF "M" \in masks THEN NDiv(s + conc, NSub(conc, temperature))
    ELSE IF "m" \in masks THEN NSub(Scale, NDiv(NSub(temperature, h), St))
    ELSE IF "L" \in masks THEN Scale - liquid_gas_fraction(g)
    ELSE IF "l" \in masks THEN Scale
    ELSE NaN

calculate_gas_fraction(g, liquid_fraction, masks) ==
    IF "S" \in masks THEN g
    ELSE IF "s" \in masks THEN 0
    ELSE IF "E" \in masks THEN NSub(g, NMul(chi, liquid_fraction))
    ELSE IF "e" \in masks THEN 0
    ELSE IF "M" \in masks THEN NSub(g, NMul(chi, liquid_fraction))
    ELSE IF "m" \in masks THEN 0
    ELSE IF "L" \in masks THEN liquid_gas_fraction(g)
    ELSE IF "l" \in masks THEN 0
    ELSE NaN

\* 1 - liquid_fraction - gas_fraction
calculate_solid_fraction(liquid_fraction, gas_fraction) ==
    NSub(NSub(Scale, liquid_fraction), gas_fraction)

calculate_dissolved_gas(g, liquid_fraction, masks) ==
    IF "S" \in masks \/ "s" \in masks \/ "E" \in masks THEN Scale
    ELSE IF "e" \in masks THEN NDiv(g, NMul(chi, liquid_fraction))
    ELSE IF "M" \in masks THEN Scale
    ELSE IF "m" \in masks THEN NDiv(g, NMul(chi, liquid_fraction))
    ELSE IF "L" \in masks THEN Scale
    ELSE IF "l" \in masks THEN NDiv(g, chi)
    ELSE NaN

calculate_liquid_salinity(s, g, temperature, masks) ==
    IF "S" \in masks \/ "s" \in masks \/ "E" \in masks \/ "e" \in masks THEN Scale
    ELSE IF "M" \in masks \/ "m" \in masks THEN NNeg(temperature)
    ELSE IF "L" \in masks
         THEN NDiv(s + NMul(liquid_gas_fraction(g), conc), Scale - liquid_gas_fraction(g))
    ELSE IF "l" \in masks THEN s
    ELSE NaN

\* calculate_enthalpy_method of the full closure on the cell
calculate_enthalpy_method(h, s, g, rounding) ==
    LET masks == get_phase_masks(h, s, g)
        temperature == calculate_temperature(h, s, g, masks, rounding)
        liquid_fraction == calculate_liquid_fraction(h, s, g, temperature, masks)
        gas_fraction == calculate_gas_fraction(g, liquid_fraction, masks)
    IN [temperature |-> temperature,
        liquid_fraction |-> liquid_fraction,
        gas_fraction |-> gas_fraction,
        solid_fraction |-> calculate_solid_fraction(liquid_fraction, gas_fraction),
        liquid_salinity |-> calculate_liquid_salinity(s, g, temperature, masks),
        dissolved_gas |-> calculate_dissolved_gas(g, liquid_fraction, masks)]

-----------------------------------------------------------------------------
(* calculate_enthalpy_from_temp: the enthalpy of a ghost cell from an      *)
(* imposed temperature.  It tests eight phase conditions in turn and       *)
(* raises ValueError when none holds.  Modelled for gas < 1 and            *)
(* temperature # C, where no division by zero occurs.                      *)

epsilon == 1

calculate_enthalpy_from_temp(s, g, temp) ==
    LET liquid_temp_sub == <<-s, 1>>
        liquid_temp_super == <<-(s * (Scale - chi) + conc * (g - chi)), Scale - g>>
        eutectic_temp == -Scale + epsilon
        solid_temp == -Scale - epsilon
        eutectic_enthalpy == calculate_eutectic(s, 0)
        solidus_enthalpy == calculate_solidus(s, 0)
        En == eutectic_enthalpy[1]
        Ed == eutectic_enthalpy[2]
        So == solidus_enthalpy[1]
        liquid_saturation == chi
        mush_saturation ==
            IF conc - temp > 0 THEN <<chi * (s + conc), conc - temp>>
            ELSE <<-chi * (s + conc), temp - conc>>
        \* (temp + 1) / (2 alpha) + (eutectic + solidus) / 2,
        \* alpha = epsilon / (eutectic - solidus)
        eutectic_value ==
            Floor(<<(temp + Scale) * (En - So * Ed) + epsilon * (En + So * Ed),
                    2 * epsilon * Ed>>)
        eutectic_saturation == <<chi * (eutectic_value + St - temp), St>>
        solid_saturation == 0
        is_liquid_sub == GtF(temp, liquid_temp_sub) /\ g <= liquid_saturation
        is_liquid_super == GtF(temp, liquid_temp_super) /\ g > liquid_saturation
        is_mush_sub ==
            temp > eutectic_temp /\ LeF(temp, liquid_temp_sub) /\ LeF(g, mush_saturation)
        is_mush_super ==
            temp > eutectic_temp /\ LeF(temp, liquid_temp_super) /\ GtF(g, mush_saturation)
        is_eutectic_sub ==
            temp > solid_temp /\ temp <= eutectic_temp /\ LeF(g, eutectic_saturation)
        is_eutectic_super ==
            temp > solid_temp /\ temp <= eutectic_temp /\ GtF(g, eutectic_saturation)
        is_solid_sub == temp <= solid_temp /\ g <= solid_saturation
        is_solid_super == temp <= solid_temp /\ g > solid_saturation
        Ret(v) == [raised |-> FALSE, value |-> v]
    IN IF is_liquid_sub THEN Ret(temp)
       ELSE IF is_liquid_super THEN Ret((temp * (Scale - g)) \div (Scale - chi))
       ELSE IF is_mush_sub THEN Ret(temp + (St * (temp + s)) \div (conc - temp))
       ELSE IF is_mush_super
            THEN Ret(NMul(Scale - g, temp - St)
                     + (NMul(NMul(s + conc, NMul(temp, chi) + Scale - chi), St) * Scale)
                         \div (conc - temp))
       ELSE IF is_eutectic_sub \/ is_eutectic_super THEN Ret(eutectic_value)
       ELSE IF is_solid_sub THEN Ret(temp - St)
       ELSE IF is_solid_super THEN Ret(NMul(Scale - g, temp - St))
       ELSE [raised |-> TRUE, value |-> NaN]

-----------------------------------------------------------------------------
(* The closure applied to one cell: the inputs and the calls.              *)

\* number of salt values tried, from above 1 down to below -C
SaltSteps == 12

\* bulk salt 1.117, 1, 0.883, ..., -0.17 (= -C), -0.287: the step 0.117 makes
\* the eutectic enthalpy of each value an exact fixed point number
SaltValues == {1117 - 117 * k : k \in 0 .. SaltSteps}

\* bulk gas: none, below chi, chi, just above chi, well above chi
GasValues == {0, 10, 29, 30, 200}

\* bulk enthalpy: the liquidus and eutectic values of the salt values, the
\* solidus, each with its two neighbours, and a value inside each gap
EnthalpyValues ==
    LET on == {117 * k - 1117 : k \in 0 .. SaltSteps}
                \cup {-580 - 420 * k : k \in 0 .. SaltSteps}
                \cup {-5200, -5408, -4160, -5500, -3000, -2960, 500}
    IN {b + d : b \in on, d \in {-1, 0, 1}}

\* imposed ghost cell temperatures, none equal to C
TemperatureValues == {-1500, -1001, -1000, -999, -500, -117, 0, 100, 300}

NoMasks == [call |-> "none", masks |-> {}]
\* physical_params.tolerable_super_saturation_fraction: the default 1, and 1.5
TolerableFractions == {Scale, Scale + Scale \div 2}

NoClosure == [call |-> "none", raised |-> FALSE, fields |-> NoFields,
              temp |-> 0, value |-> NaN,
              tolerable_super_saturation_fraction |-> Scale]

NotCalled == phase_masks.call = "none" /\ closure.call = "none"

\* FullPhaseBoundaries.get_phase_masks on the cell
FullGetPhaseMasks ==
    /\ NotCalled
    /\ phase_masks' = [call |-> "full", masks |-> get_phase_masks(enthalpy, salt, gas)]
    /\ UNCHANGED <<enthalpy, salt, gas, closure>>
    /\ UNCHANGED <<solveVars, batchVars, stepVars, callVars>>

\* ReducedEnthalpyMethod.calculate_enthalpy_method on the cell
ReducedCalculateEnthalpyMethod ==
    /\ NotCalled
    /\ \E tolerable \in TolerableFractions :
         LET out == reduced_calculate_enthalpy_method(enthalpy, salt, gas)
         IN closure' = [call |-> "reduced", raised |-> out.raised, fields |-> out.fields,
                        temp |-> 0, value |-> NaN,
                        tolerable_super_saturation_fraction |-> tolerable]
    /\ phase_masks' = [call |-> "reduced", masks |-> reduced_get_phase_masks(enthalpy, salt)]
    /\ UNCHANGED <<enthalpy, salt, gas>>
    /\ UNCHANGED <<solveVars, batchVars, stepVars, callVars>>

\* calculate_enthalpy_method of the full closure on the cell
FullCalculateEnthalpyMethod ==
    /\ NotCalled
    /\ \E rounding \in Roundings :
         closure' = [call |-> "full", raised |-> FALSE,
                     fields |-> calculate_enthalpy_method(enthalpy, salt, gas, rounding),
                     temp |-> 0, value |-> NaN,
                     tolerable_super_saturation_fraction |-> Scale]
    /\ phase_masks' = [call |-> "full closure", masks |-> get_phase_masks(enthalpy, salt, gas)]
    /\ UNCHANGED <<enthalpy, salt, gas>>
    /\ UNCHANGED <<solveVars, batchVars, stepVars, callVars>>

\* calculate_enthalpy_from_temp(salt, gas, temperature) for a ghost cell
CalculateEnthalpyFromTemp ==
    /\ NotCalled
    /\ \E temp \in TemperatureValues :
         LET out == calculate_enthalpy_from_temp(salt, gas, temp)
         IN closure' = [call |-> "from_temp", raised |-> out.raised, fields |-> NoFields,
                        temp |-> temp, value |-> out.value,
                        tolerable_super_saturation_fraction |-> Scale]
    /\ UNCHANGED <<enthalpy, salt, gas, phase_masks>>
    /\ UNCHANGED <<solveVars, batchVars, stepVars, callVars>>

-----------------------------------------------------------------------------
(* Claims about the closure of one cell.                                   *)

InDomain ==
    /\ ~IsNaN(enthalpy)
    /\ salt >= -conc
    /\ LeF(salt, calculate_max_salt(gas))

\* C1 (as stated): for every cell given to get_phase_masks exactly one of
\* the eight masks of the full closure is true (read here for the cells
\* whose enthalpy is a number).
C1_ExactlyOneMask ==
    (phase_masks.call = "full" /\ ~IsNaN(enthalpy))
        => Cardinality(phase_masks.masks) = 1

\* C1 (amended): for every cell with a finite enthalpy and a bulk salt in
\* the physical range -C <= salt <= max_salt(gas), exactly one of the eight
\* masks returned by get_phase_masks is true.
C1_ExactlyOneMaskInDomain ==
    (phase_masks.call = "full" /\ InDomain) => Cardinality(phase_masks.masks) = 1

\* a supersaturated mush cell inside the physical range has been classified
C1_Witness ==
    /\ phase_masks.call = "full"
    /\ InDomain
    /\ gas = 200
    /\ phase_masks.masks = {"M"}

\* the thermal phases (gas saturation ignored) of a set of masks
ThermalPhases(masks) ==
    {q \in ReducedPhases :
       \/ q = "Liquid" /\ masks \cap {"l", "L"} # {}
       \/ q = "Mush" /\ masks \cap {"m", "M"} # {}
       \/ q = "Eutectic" /\ masks \cap {"e", "E"} # {}
       \/ q = "Solid" /\ masks \cap {"s", "S"} # {}}

\* the classification the claim C2 words, with
\* eutectic(S) = St (S - 1) / (1 + C) - 1
StatedPhases(h, s) ==
    LET liq == <<-s, 1>>
        eut == <<St * (s - Scale) - Scale * (Scale + conc), Scale + conc>>
        sol == <<-Scale - St, 1>>
    IN {q \in ReducedPhases :
          \/ q = "Liquid" /\ h * liq[2] >= liq[1]
          \/ q = "Mush" /\ h * eut[2] >= eut[1] /\ h * liq[2] < liq[1]
          \/ q = "Eutectic" /\ h * sol[2] >= sol[1] /\ h * eut[2] < eut[1]
          \/ q = "Solid" /\ h * sol[2] < sol[1]}

GasFreeCall == phase_masks.call = "full" /\ gas = 0 /\ ~IsNaN(enthalpy)

\* C2 (as stated): in the gas-free classification a cell is Liquid exactly
\* when H >= -S, Mush exactly when eutectic(S) <= H < -S, Eutectic exactly
\* when -1 - St <= H < eutectic(S), Solid exactly when H < -1 - St, with
\* eutectic(S) = St (S - 1) / (1 + C) - 1, a boundary value belonging to the
\* phase above it.
C2_GasFreeClassification ==
    GasFreeCall => ThermalPhases(phase_masks.masks) = StatedPhases(enthalpy, salt)

\* C2 (amended): the same, for every cell whose bulk salt is at least -C.
C2_GasFreeClassificationSaltAboveMinusC ==
    (GasFreeCall /\ salt >= -conc)
        => ThermalPhases(phase_masks.masks) = StatedPhases(enthalpy, salt)

\* a gas-free cell whose enthalpy is exactly its eutectic value is Mush
C2_Witness ==
    /\ GasFreeCall
    /\ salt = 532
    /\ enthalpy = -2680
    /\ ThermalPhases(phase_masks.masks) = {"Mush"}

\* C3: when a cell matches none of the phase conditions the closure fails
\* with a classification error and returns no secondary fields for it.
C3_UnclassifiedCellRaises ==
    /\ (closure.call = "reduced" /\ phase_masks.masks = {}) => closure.raised
    /\ (closure.call = "from_temp" /\ IsNaN(closure.value)) => closure.raised

\* the closure has run on a cell that it classified and that lies in the
\* physical domain
ClassifiedCall(kind) ==
    /\ closure.call = kind
    /\ phase_masks.masks # {}
    /\ InDomain

\* C12: after the closure runs, solid_fraction + liquid_fraction = 1 in the
\* reduced model and solid_fraction + liquid_fraction + gas_fraction = 1 in
\* the full model (stated for the classified cells of the physical domain,
\* where it already fails).
C12_FractionsSumToOne ==
    /\ ClassifiedCall("reduced") =>
         NAdd(closure.fields.solid_fraction, closure.fields.liquid_fraction) = Scale
    /\ ClassifiedCall("full") =>
         NAdd(NAdd(closure.fields.solid_fraction, closure.fields.liquid_fraction),
              closure.fields.gas_fraction) = Scale

\* what the rounding of the fixed point closure can move a fraction by
FractionTolerance == 10

\* C13: after the closure runs, liquid_fraction lies in [0, 1] (within the
\* rounding of the closure; stated for the classified cells of the physical
\* domain, where it already fails).
C13_LiquidFractionInUnitInterval ==
    (ClassifiedCall("reduced") \/ ClassifiedCall("full")) =>
       /\ Ge(closure.fields.liquid_fraction, -FractionTolerance)
       /\ Le(closure.fields.liquid_fraction, Scale + FractionTolerance)

Near(x, y, tol) == ~IsNaN(x) /\ ~IsNaN(y) /\ x - y <= tol /\ y - x <= tol

\* C14: for fixed salt and gas, temperature and liquid_fraction have no jump
\* at a phase boundary: a classified cell and the cell one enthalpy unit in
\* the last place below it, when a boundary lies between them, get values
\* that differ by no more than the rounding of the closure.
C14_NoJumpAtPhaseBoundary ==
    /\ LET below == reduced_get_phase_masks(enthalpy - 1, salt)
       IN (ClassifiedCall("reduced") /\ below # {} /\ below # phase_masks.masks) =>
            LET f == reduced_calculate_enthalpy_method(enthalpy - 1, salt, gas).fields
            IN /\ Near(closure.fields.temperature, f.temperature, FractionTolerance)
               /\ Near(closure.fields.liquid_fraction, f.liquid_fraction,
                       FractionTolerance)
    /\ LET below == get_phase_masks(enthalpy - 1, salt, gas)
       IN (ClassifiedCall("full") /\ below # {} /\ below # phase_masks.masks) =>
            \A rounding \in Roundings :
               LET f == calculate_enthalpy_method(enthalpy - 1, salt, gas, rounding)
               IN /\ Near(closure.fields.temperature, f.temperature, FractionTolerance)
                  /\ Near(closure.fields.liquid_fraction, f.liquid_fraction,
                          FractionTolerance)

\* C15: in the reduced closure, with saturation = chi * liquid_fraction, a
\* cell with bulk gas at or above saturation gets gas_fraction = gas -
\* saturation and dissolved_gas equal to the tolerable fraction, and a cell
\* with bulk gas below saturation gets gas_fraction = 0 and dissolved_gas =
\* gas / saturation.
C15_ReducedGasPartition ==
    ClassifiedCall("reduced") =>
       LET saturation == NMul(chi, closure.fields.liquid_fraction)
       IN IF Ge(gas, saturation)
          THEN /\ closure.fields.gas_fraction = gas - saturation
               /\ closure.fields.dissolved_gas = closure.tolerable_super_saturation_fraction
          ELSE /\ closure.fields.gas_fraction = 0
               /\ closure.fields.dissolved_gas = NDiv(gas, saturation)

-----------------------------------------------------------------------------
(* The solve loops.  Times are whole ticks, TimeUnit ticks to one unit of  *)
(* non-dimensional time.  What a step computes from the fields (the        *)
(* minimum of the new salt, the stable timestep, whether the nonlinear     *)
(* solve converges) is drawn from the values it can take.                  *)

TimeUnit == 4 * 10

\* largest total_time and largest timestep of a configuration, in ticks
MaxTotalTime == 4
MaxTimestep == 3

\* the solve functions: SolverTemplate.solve, the Lax-Friedrichs solve,
\* the backward Euler solve and the RK23 driver
Variants == {"template", "lxf", "backward_euler", "scipy"}

BuoyancyValues == {1, 10, 100}
CellNumbers == {1, 3, 5}

\* ForcingConfig: the choice of the top temperature forcing and the names
\* of the attributes the object holds, at first its dataclass fields
ForcingConfigFields ==
    {"temperature_forcing_choice", "constant_top_temperature", "offset", "amplitude",
     "period", "Barrow_top_temperature_data_choice", "Barrow_initial_bulk_gas_in_ice"}

ForcingConfigs ==
    [temperature_forcing_choice : {"constant", "barrow_2009"},
     attributes : {ForcingConfigFields}]

\* savefreq, in ticks
SaveFrequencies == {1, 2}

AllConfigs ==
    [variant : Variants, B : BuoyancyValues, I : CellNumbers,
     timestep : 1 .. MaxTimestep, total_time : 1 .. MaxTotalTime,
     savefreq : SaveFrequencies,
     adaptive_timestepping : BOOLEAN,
     brine_convection_parameterisation : BOOLEAN,
     couple_bubble_to_horizontal_flow : BOOLEAN,
     bubble_radius_scaled : {Scale \div 2},
     forcing_config : ForcingConfigs]

\* the configurations solved: a field that a solve function never reads is
\* left at one value
Configs ==
    {cfg \in AllConfigs :
        /\ cfg.variant # "backward_euler" => cfg.B = 1
        /\ cfg.variant \in {"template", "lxf"} => cfg.I = 1
        /\ cfg.variant # "template" => cfg.savefreq = 1 /\ ~cfg.adaptive_timestepping
        /\ cfg.variant = "scipy" => cfg.timestep = 1 /\ cfg.I <= 3
        /\ cfg.variant # "scipy" =>
              /\ ~cfg.brine_convection_parameterisation
              /\ cfg.couple_bubble_to_horizontal_flow
              /\ cfg.forcing_config.temperature_forcing_choice = "constant"}

\* the minimum of the salt field after a step: above, at and below -C
SaltMinima == {0, -conc, -conc - 1}

\* Params.Courant_gas = B * timestep / step with step = 1 / I, in ticks
Courant_gas_without_B(cfg) == cfg.timestep * cfg.I

Courant_gas(cfg) == cfg.B * cfg.timestep * cfg.I

\* Params.Diff_num = timestep / step^2, in ticks
Diff_num_one_step(cfg) == cfg.timestep * cfg.I

Diff_num(cfg) == cfg.timestep * cfg.I * cfg.I

check_buoyancy_CFL(cfg) == Courant_gas(cfg) > TimeUnit

check_thermal_diffusion_stability(cfg) == 2 * Diff_num(cfg) > TimeUnit

get_number_of_timesteps(total_time, timestep) == (total_time \div timestep) + 1

\* options={"maxiter": 5} of the Newton-Krylov root call
maxiter == 5

\* iterations the nonlinear solve of a step would need to converge
IterationsNeeded == {1, maxiter, maxiter + 1}

\* root(...).success
root_success(needed) == needed <= maxiter

\* advance: the step is retaken with min_timestep when timestep exceeds it.
\* min_timestep comes from the velocities of the old state, so the retake
\* returns the same value.
advance(time, timestep, min_timestep, adaptive) ==
    LET used == IF adaptive /\ timestep > min_timestep THEN min_timestep ELSE timestep
    IN [time |-> time + used, timestep |-> used, min_timestep |-> min_timestep]

NotStarted ==
    [pc |-> "start", time |-> 0, timestep |-> 0, n |-> 0, steps |-> 0,
     step_time |-> 0, step_size |-> 0, salt_min |-> 0,
     unconverged |-> FALSE, code |-> 0, message |-> "",
     liquid_fraction |-> <<>>, depth_calculated |-> FALSE,
     old_time_index |-> 0, add_state_indices |-> <<>>]

\* Solution.__init__: the number of columns of the arrays of the solution
time_length(cfg) == 1 + (cfg.total_time \div cfg.savefreq)

\* int(time / savefreq)
time_index(time, cfg) == time \div cfg.savefreq

IsExplicit == solver.variant \in {"template", "lxf"}

\* SolverTemplate.solve and the Lax-Friedrichs solve up to the loop
ExplicitSolveBegin ==
    /\ IsExplicit
    /\ run.pc = "start"
    /\ run' = [run EXCEPT !.pc = "loop", !.time = 0, !.timestep = solver.timestep,
                           !.old_time_index = 0,
                           !.add_state_indices =
                               IF solver.variant = "template" THEN <<0>> ELSE <<>>]
    /\ UNCHANGED <<solver, phaseVars, batchVars, stepVars, callVars>>

\* one pass of "while time < T": advance, the salt check, the new timestep
\* and, in SolverTemplate.solve, solution.add_state when the time index has
\* moved on; an index past the last column raises IndexError
ExplicitSolveStep ==
    /\ IsExplicit
    /\ run.pc = "loop"
    /\ run.time < solver.total_time
    /\ \E min_timestep \in 1 .. MaxTimestep, salt_min \in SaltMinima :
         LET adaptive == solver.variant = "lxf" \/ solver.adaptive_timestepping
             adv == advance(run.time, run.timestep, min_timestep, adaptive)
             stepped == [run EXCEPT !.time = adv.time,
                                    !.steps = run.steps + 1,
                                    !.step_time = run.time,
                                    !.step_size = adv.timestep,
                                    !.salt_min = salt_min]
         IN IF salt_min < -conc
            THEN run' = [stepped EXCEPT !.pc = "raised", !.timestep = adv.timestep,
                                        !.message = "salt crash"]
            ELSE LET new_time_index == time_index(adv.time, solver)
                     adds == /\ solver.variant = "template"
                             /\ new_time_index - run.old_time_index > 0
                     timed == [stepped EXCEPT
                                 !.timestep = IF adaptive THEN adv.min_timestep
                                              ELSE adv.timestep,
                                 !.add_state_indices =
                                     IF adds THEN Append(@, new_time_index) ELSE @]
                 IN IF adds /\ new_time_index >= time_length(solver)
                    THEN run' = [timed EXCEPT !.pc = "raised",
                                              !.message = "index out of bounds"]
                    ELSE run' = [timed EXCEPT
                                   !.old_time_index =
                                       IF solver.variant = "template"
                                       THEN new_time_index ELSE @]
    /\ UNCHANGED <<solver, phaseVars, batchVars, stepVars, callVars>>

\* the loop ends: the solution is saved and 0 returned
ExplicitSolveEnd ==
    /\ IsExplicit
    /\ run.pc = "loop"
    /\ ~(run.time < solver.total_time)
    /\ run' = [run EXCEPT !.pc = "returned", !.code = 0]
    /\ UNCHANGED <<solver, phaseVars, batchVars, stepVars, callVars>>

\* backward Euler solve up to the loop: the two stability checks, each
\* returning status 1 and its message, then N
BackwardEulerSolveBegin ==
    /\ solver.variant = "backward_euler"
    /\ run.pc = "start"
    /\ run' = IF check_buoyancy_CFL(solver)
              THEN [run EXCEPT !.pc = "returned", !.code = 1,
                               !.message = "unstable CFL for gas advection"]
              ELSE IF check_thermal_diffusion_stability(solver)
              THEN [run EXCEPT !.pc = "returned", !.code = 1,
                               !.message = "unstable thermal diffusion"]
              ELSE [run EXCEPT !.pc = "loop", !.n = 0, !.timestep = solver.timestep]
    /\ UNCHANGED <<solver, phaseVars, batchVars, stepVars, callVars>>

\* one pass of "for n in range(N)": time = n * timestep, then the solution
\* becomes root(...).x whether or not the root call succeeded
BackwardEulerSolveStep ==
    /\ solver.variant = "backward_euler"
    /\ run.pc = "loop"
    /\ run.n < get_number_of_timesteps(solver.total_time, solver.timestep)
    /\ \E needed \in IterationsNeeded, salt_min \in SaltMinima :
         run' = [run EXCEPT !.time = run.n * solver.timestep,
                            !.n = run.n + 1,
                            !.steps = run.steps + 1,
                            !.step_time = run.n * solver.timestep,
                            !.step_size = solver.timestep,
                            !.salt_min = salt_min,
                            !.unconverged = run.unconverged \/ ~root_success(needed)]
    /\ UNCHANGED <<solver, phaseVars, batchVars, stepVars, callVars>>

\* range(N) is used up: the storage is saved and (0, "solve complete") returned
BackwardEulerSolveEnd ==
    /\ solver.variant = "backward_euler"
    /\ run.pc = "loop"
    /\ ~(run.n < get_number_of_timesteps(solver.total_time, solver.timestep))
    /\ run' = [run EXCEPT !.pc = "returned", !.code = 0, !.message = "solve complete"]
    /\ UNCHANGED <<solver, phaseVars, batchVars, stepVars, callVars>>

-----------------------------------------------------------------------------
(* Claims about the solve loops.                                           *)

\* C4: in every solver variant, after each timestep the minimum of the salt
\* field is compared with -concentration_ratio and the run aborts with a
\* fatal error at the first step after which the minimum is below it.
C4_SaltCheckedEveryStep ==
    (run.steps > 0 /\ run.salt_min < -concentration_ratio)
        => (run.pc = "raised" /\ run.message = "salt crash")

\* C5: a solve that no fatal error aborts stops exactly when the simulated
\* time first reaches or exceeds total_time: no step starts at a time that
\* is not below total_time, and the solve does not return before the last
\* step has reached total_time.
C5_StopsAtTotalTime ==
    /\ run.steps > 0 => run.step_time < solver.total_time
    /\ (run.pc = "returned" /\ run.code = 0)
          => run.step_time + run.step_size >= solver.total_time

IsBackwardEuler == solver.variant = "backward_euler"

\* buoyancy Courant number B * timestep / step > 1
CFLUnstable == solver.B * solver.timestep * solver.I > TimeUnit

\* timestep / step^2 > 0.5
DiffusionUnstable == 2 * solver.timestep * solver.I * solver.I > TimeUnit

\* C9: for every configuration whose buoyancy Courant number is greater
\* than 1, the backward Euler solve takes no timestep and returns status 1
\* with the message "unstable CFL for gas advection".
C9_UnstableCFLReported ==
    (IsBackwardEuler /\ CFLUnstable)
        => /\ run.steps = 0
           /\ run.pc \in {"start", "returned"}
           /\ run.pc = "returned"
                => (run.code = 1 /\ run.message = "unstable CFL for gas advection")

\* a solve with Courant number above 1 and a stable diffusion number has returned
C9_Witness ==
    /\ IsBackwardEuler
    /\ CFLUnstable
    /\ ~DiffusionUnstable
    /\ run.pc = "returned"
    /\ run.message = "unstable CFL for gas advection"

C29_SavedIndexWithinSolution ==
    (solver.variant = "template" /\ run.pc # "start") =>
        \A k \in 1 .. Len(run.add_state_indices) :
            /\ 0 <= run.add_state_indices[k]
            /\ run.add_state_indices[k] <= time_length(solver) - 1

-----------------------------------------------------------------------------
(* The batch runner: run_batch(list_of_cfg, directory).                    *)

\* longest list of configurations
MaxConfigs == 3

ConfigNames == {"a", "b"}

\* what solve(cfg, directory) does: return 0, or raise an Exception
SolveOutcomes == {"returns", "ValueError", "NotImplementedError"}

ConfigLists == UNION {[1 .. k -> ConfigNames] : k \in 0 .. MaxConfigs}

NewBatch(list) ==
    [pc |-> "loop", list_of_cfg |-> list, solved |-> <<>>, outcomes |-> <<>>,
     printed |-> <<>>]

\* the body of "for cfg in list_of_cfg" without the except clause: the
\* exception leaves run_batch
run_batch_body_uncaught(b, outcome) ==
    LET cfg == b.list_of_cfg[Len(b.solved) + 1]
        called == [b EXCEPT !.solved = Append(b.solved, cfg),
                            !.outcomes = Append(b.outcomes, outcome)]
    IN IF outcome = "returns" THEN called ELSE [called EXCEPT !.pc = "raised"]

\* the body of "for cfg in list_of_cfg": solve, and on an Exception the two
\* prints
run_batch_body(b, outcome) ==
    LET cfg == b.list_of_cfg[Len(b.solved) + 1]
        called == [b EXCEPT !.solved = Append(b.solved, cfg),
                            !.outcomes = Append(b.outcomes, outcome)]
    IN IF outcome = "returns"
       THEN called
       ELSE [called EXCEPT !.printed = b.printed \o <<<<cfg, "crashed">>, <<outcome>>>>]

RunBatchBody ==
    /\ batch.pc = "loop"
    /\ Len(batch.solved) < Len(batch.list_of_cfg)
    /\ \E outcome \in SolveOutcomes : batch' = run_batch_body(batch, outcome)
    /\ UNCHANGED <<phaseVars, solveVars, stepVars, callVars>>

RunBatchReturn ==
    /\ batch.pc = "loop"
    /\ Len(batch.solved) = Len(batch.list_of_cfg)
    /\ batch' = [batch EXCEPT !.pc = "returned"]
    /\ UNCHANGED <<phaseVars, solveVars, stepVars, callVars>>

\* the names printed with "crashed", in order
CrashedPrinted ==
    LET IsCrash(line) == Len(line) = 2 /\ line[2] = "crashed"
        lines == SelectSeq(batch.printed, IsCrash)
    IN [k \in 1 .. Len(lines) |-> lines[k][1]]

\* the names of the configurations whose solve raised, in order
CrashedNames ==
    LET Pairs == [k \in 1 .. Len(batch.outcomes) |-> <<batch.solved[k], batch.outcomes[k]>>]
        Raised(p) == p[2] # "returns"
        pairs == SelectSeq(Pairs, Raised)
    IN [k \in 1 .. Len(pairs) |-> pairs[k][1]]

\* C6: when the solve of one configuration of the list raises, the failure
\* is caught and reported with that configuration's name, and solve is
\* still invoked for every later configuration of the list.
C6_BatchContinuesAfterFailure ==
    /\ batch.pc \in {"loop", "returned"}
    /\ batch.solved = SubSeq(batch.list_of_cfg, 1, Len(batch.solved))
    /\ batch.pc = "returned" => batch.solved = batch.list_of_cfg
    /\ CrashedPrinted = CrashedNames

\* the first solve of a list of three raised and the batch has returned
C6_Witness ==
    /\ batch.pc = "returned"
    /\ Len(batch.list_of_cfg) = 3
    /\ batch.outcomes[1] = "ValueError"
    /\ batch.outcomes[3] = "returns"
    /\ batch.printed[1] = <<batch.list_of_cfg[1], "crashed">>

-----------------------------------------------------------------------------
(* One timestep (ReducedSolver.take_timestep) and one right hand side       *)
(* evaluation (ode_fun of _get_ode_fun), statement by statement, for a      *)
(* one cell state.  Each stage records what it was computed from.           *)

\* evaluations followed in one run
MaxEvaluations == 3

StepEnthalpies == {-5500, -4000, -1000, 500}
StepSalts == {0, 532}
StepGases == {0, 10}

StepStates == [enthalpy : StepEnthalpies, salt : StepSalts, gas : StepGases]

Entries == {"take_timestep", "ode_fun"}

\* a State as constructed: none of the closure attributes is set
NewStep(entry, st) ==
    [entry |-> entry, pc |-> "called", evaluations |-> 0, state |-> st,
     full_state |-> NoFields, has_full_state |-> FALSE,
     state_BCs |-> NoFields, has_state_BCs |-> FALSE,
     velocities_from |-> NoFields, has_velocities |-> FALSE,
     fluxes_from |-> NoFields, has_fluxes |-> FALSE]

\* a closure kept from the earlier evaluation when there is one
enthalpy_method_kept(s) ==
    IF s.evaluations > 0
    THEN s.full_state
    ELSE reduced_calculate_enthalpy_method(s.state.enthalpy, s.state.salt,
                                           s.state.gas).fields

\* state.calculate_enthalpy_method() / enthalpy_method(state): the closure
\* of the state passed to this evaluation
enthalpy_method(s) ==
    reduced_calculate_enthalpy_method(s.state.enthalpy, s.state.salt,
                                      s.state.gas).fields

\* state.calculate_enthalpy_method()
StepEnthalpyMethod ==
    /\ step.pc = "called"
    /\ step' = [step EXCEPT !.pc = "closed", !.full_state = enthalpy_method(step),
                            !.has_full_state = TRUE]
    /\ UNCHANGED <<phaseVars, solveVars, batchVars, callVars>>

\* StateBCs(state) / boundary_conditions(full_state)
StepBoundaryConditions ==
    /\ step.pc = "closed"
    /\ step' = [step EXCEPT !.pc = "bounded", !.state_BCs = step.full_state,
                            !.has_state_BCs = step.has_full_state]
    /\ UNCHANGED <<phaseVars, solveVars, batchVars, callVars>>

\* calculate_velocities(state_BCs, ...) and the gas rise guard
StepVelocities ==
    /\ step.pc = "bounded"
    /\ step' = [step EXCEPT !.pc = "moving", !.velocities_from = step.state_BCs,
                            !.has_velocities = step.has_state_BCs]
    /\ UNCHANGED <<phaseVars, solveVars, batchVars, callVars>>

\* the heat, salt and gas fluxes from state_BCs and the velocities
StepFluxes ==
    /\ step.pc = "moving"
    /\ step' = [step EXCEPT !.pc = "fluxed", !.fluxes_from = step.state_BCs,
                            !.has_fluxes = step.has_velocities]
    /\ UNCHANGED <<phaseVars, solveVars, batchVars, callVars>>

\* take_timestep returns State(cfg, new_time, ...), ode_fun its derivative;
\* the caller comes back with the next state, a new object
StepReturn ==
    /\ step.pc = "fluxed"
    /\ step.evaluations + 1 < MaxEvaluations
    /\ \E st \in StepStates :
         step' = [step EXCEPT !.pc = "called", !.state = st,
                              !.evaluations = step.evaluations + 1,
                              !.has_full_state = FALSE,
                              !.has_state_BCs = FALSE,
                              !.has_velocities = FALSE,
                              !.has_fluxes = FALSE]
    /\ UNCHANGED <<phaseVars, solveVars, batchVars, callVars>>

\* the closure of the state this evaluation was given
FreshClosure ==
    reduced_calculate_enthalpy_method(step.state.enthalpy, step.state.salt,
                                      step.state.gas).fields

\* C7: within every timestep or right hand side evaluation the closure is
\* computed from the state passed to it before any velocity or flux is
\* computed, and the velocities and fluxes use that result and no earlier
\* one.
C7_ClosureFreshBeforeFluxes ==
    /\ step.pc \in {"moving", "fluxed"}
          => /\ step.has_velocities
             /\ step.velocities_from = FreshClosure
    /\ step.pc = "fluxed"
          => /\ step.has_fluxes
             /\ step.fluxes_from = FreshClosure
    /\ step.pc \in {"called"} => ~step.has_velocities /\ ~step.has_fluxes

\* a second evaluation, of a liquid state after a solid one, has computed
\* its fluxes
C7_Witness ==
    /\ step.pc = "fluxed"
    /\ step.evaluations = 1
    /\ step.state.enthalpy = 500
    /\ step.fluxes_from.solid_fraction = 0
    /\ step.fluxes_from = FreshClosure

-----------------------------------------------------------------------------
(* Functions of the fields of a column of cells, called once on drawn       *)
(* arguments.  Cells and edges are numbered from the bottom, from 1.        *)

\* most cells of a column
MaxCells == 3

CellCounts == 2 .. MaxCells

RECURSIVE SumTo(_, _)
SumTo(a, n) == IF n = 0 THEN 0 ELSE a[n] + SumTo(a, n - 1)

\* np.sum of an array
Sum(a) == SumTo(a, Len(a))

\* a difference matrix whose loop stops one row early
difference_matrix_short(size, I) ==
    [i \in 1 .. size |->
       [j \in 1 .. size + 1 |->
          IF i = size THEN 0
          ELSE IF j = i THEN -I ELSE IF j = i + 1 THEN I ELSE 0]]

\* get_difference_matrix(size, step) with step = 1 / I: row i holds -1 / step
\* at i and 1 / step at i + 1
get_difference_matrix(size, I) ==
    [i \in 1 .. size |->
       [j \in 1 .. size + 1 |-> IF j = i THEN -I ELSE IF j = i + 1 THEN I ELSE 0]]

\* np.matmul of a matrix and a vector
matmul(D, v) ==
    [i \in 1 .. Len(D) |-> Sum([j \in 1 .. Len(v) |-> D[i][j] * v[j]])]

\* take_forward_euler_step: quantity - timestep * np.matmul(D_e, flux).  The
\* timestep is in ticks and the flux in thousandths, the quantity in
\* thousandths of a tick, so that the arithmetic is exact.
take_forward_euler_step(quantity, flux, timestep, D_e) ==
    LET dz == matmul(D_e, flux)
    IN [i \in 1 .. Len(quantity) |-> quantity[i] - timestep * dz[i]]

QuantityValues == {0, 5000}
FluxValues == {-2, 0, 3}
TimestepValues == {1, 2}

EulerCalls ==
    UNION {[fn : {"take_forward_euler_step"}, pc : {"called"},
            quantity : [1 .. n -> QuantityValues],
            flux : [1 .. n + 1 -> FluxValues],
            timestep : TimestepValues,
            result : {<<>>}] : n \in CellCounts}

TakeForwardEulerStep ==
    /\ call.fn = "take_forward_euler_step"
    /\ call.pc = "called"
    /\ LET n == Len(call.quantity)
           D_e == get_difference_matrix(n, n)
       IN call' = [call EXCEPT !.pc = "returned",
                     !.result = take_forward_euler_step(call.quantity, call.flux,
                                                        call.timestep, D_e)]
    /\ UNCHANGED <<phaseVars, solveVars, batchVars, stepVars>>

\* C11: with zero flux on the bottom and the top edge, one explicit step
\* Q - dt * D_e * flux leaves the sum of Q over the cells unchanged, whatever
\* the fluxes on the interior edges are.
C11_EulerStepConservesSum ==
    (/\ call.fn = "take_forward_euler_step"
     /\ call.pc = "returned"
     /\ call.flux[1] = 0
     /\ call.flux[Len(call.flux)] = 0)
        => Sum(call.result) = Sum(call.quantity)

\* a step with nonzero interior fluxes that changed the cells
C11_Witness ==
    /\ call.fn = "take_forward_euler_step"
    /\ call.pc = "returned"
    /\ Len(call.quantity) = 3
    /\ call.flux = <<0, 3, -2, 0>>
    /\ call.result # call.quantity
    /\ Sum(call.result) = Sum(call.quantity)

-----------------------------------------------------------------------------
(* The guard on the gas velocity.  Vg holds one velocity per cell edge,    *)
(* bottom to top; the fields of state_BCs hold one value per cell with a   *)
(* ghost cell below the bottom and above the top, so that the cell above   *)
(* edge i is cell i + 1.                                                   *)

VgValues == {-1, 2}
GasFractionValues == {0, 300}
LiquidFractionValues == {300, Scale}

GuardCalls ==
    UNION {[fn : {"prevent_gas_rise_into_saturated_cell"}, pc : {"called"},
            Vg : [1 .. n + 1 -> VgValues],
            state_BCs : [gas_fraction : [1 .. n + 2 -> GasFractionValues],
                         liquid_fraction : [1 .. n + 2 -> LiquidFractionValues]],
            result : {<<>>}] : n \in CellCounts}

\* the guard without the line that puts back the velocity of the top edge
gas_rise_guard_on_every_edge(Vg, state_BCs) ==
    [i \in 1 .. Len(Vg) |->
       IF state_BCs.gas_fraction[i + 1] + (Scale - state_BCs.liquid_fraction[i + 1])
            >= Scale
       THEN 0 ELSE Vg[i]]

\* np.where(gas_fraction_above + solid_fraction_above >= 1, 0, Vg) with
\* solid_fraction_above = 1 - liquid_fraction[1:], then filtered_Vg[-1] = Vg[-1]
prevent_gas_rise_into_saturated_cell(Vg, state_BCs) ==
    LET gas_fraction_above == [i \in 1 .. Len(Vg) |-> state_BCs.gas_fraction[i + 1]]
        solid_fraction_above ==
            [i \in 1 .. Len(Vg) |-> Scale - state_BCs.liquid_fraction[i + 1]]
        filtered_Vg ==
            [i \in 1 .. Len(Vg) |->
               IF gas_fraction_above[i] + solid_fraction_above[i] >= Scale
               THEN 0 ELSE Vg[i]]
    IN [filtered_Vg EXCEPT ![Len(Vg)] = Vg[Len(Vg)]]

PreventGasRiseIntoSaturatedCell ==
    /\ call.fn = "prevent_gas_rise_into_saturated_cell"
    /\ call.pc = "called"
    /\ call' = [call EXCEPT !.pc = "returned",
                  !.result = prevent_gas_rise_into_saturated_cell(call.Vg,
                                                                   call.state_BCs)]
    /\ UNCHANGED <<phaseVars, solveVars, batchVars, stepVars>>

\* the cell above edge i holds no room for gas: gas_fraction + solid_fraction
\* >= 1, the solid fraction being 1 - liquid_fraction
SaturatedAbove(i) ==
    call.state_BCs.gas_fraction[i + 1] + (Scale - call.state_BCs.liquid_fraction[i + 1])
       >= Scale

\* C16: the guard returns the edge velocities with every edge except the
\* topmost set to 0 when the cell immediately above it has gas_fraction +
\* solid_fraction >= 1; the topmost edge and every other edge keep the input
\* velocity.
C16_GuardZeroesBelowSaturatedCells ==
    (call.fn = "prevent_gas_rise_into_saturated_cell" /\ call.pc = "returned") =>
       /\ Len(call.result) = Len(call.Vg)
       /\ \A i \in 1 .. Len(call.Vg) :
            call.result[i] =
               IF i < Len(call.Vg) /\ SaturatedAbove(i) THEN 0 ELSE call.Vg[i]

\* three cells, the top ghost cell and the cell above the bottom edge full:
\* the bottom edge is closed, the next one keeps its velocity, the top edge
\* stays open
C16_Witness ==
    /\ call.fn = "prevent_gas_rise_into_saturated_cell"
    /\ call.pc = "returned"
    /\ Len(call.Vg) = 4
    /\ SaturatedAbove(1) /\ ~SaturatedAbove(2) /\ SaturatedAbove(4)
    /\ call.result[1] = 0
    /\ call.result[2] = call.Vg[2]
    /\ call.result[4] = call.Vg[4]

-----------------------------------------------------------------------------
(* The wall drag function K and the lag function G of the bubble size      *)
(* fraction lambda, one edge at a time: calculate_wall_drag_function and   *)
(* calculate_lag_function of celestine/velocities.py, calculate_drag and   *)
(* calculate_lag of velocities.py.  Values are fixed point numbers.        *)

\* bubble size fractions below, on and above the ends of [0, 1]
BubbleSizeFractions ==
    {-Scale, -1, 0, 1, Scale \div 4, Scale \div 2, Scale - 1, Scale, Scale + 1,
     2 * Scale}

\* darcy_law_params.drag_exponent, a positive whole number here
DragExponents == {1, 2, 6}

RECURSIVE Power(_, _)
Power(x, n) == IF n = 0 THEN Scale ELSE (x * Power(x, n - 1)) \div Scale

\* calculate_lag_function: 1 below 0, 1 - lambda / 2 on [0, 1), 0.5 from 1 on
calculate_lag_function(bubble_size_fraction) ==
    LET intermediate == bubble_size_fraction < Scale /\ bubble_size_fraction >= 0
        large == bubble_size_fraction >= Scale
    IN IF large THEN Scale \div 2
       ELSE IF intermediate THEN Scale - bubble_size_fraction \div 2
       ELSE IF bubble_size_fraction < 0 THEN Scale
       ELSE NaN

\* the wall drag function with the exponent on lambda instead of 1 - lambda
wall_drag_function_of_lambda(bubble_size_fraction, exponent) ==
    LET intermediate == bubble_size_fraction < Scale /\ bubble_size_fraction >= 0
        large == bubble_size_fraction >= Scale
    IN IF large THEN 0
       ELSE IF intermediate THEN Power(bubble_size_fraction, exponent)
       ELSE IF bubble_size_fraction < 0 THEN Scale
       ELSE NaN

\* calculate_wall_drag_function: 1 below 0, (1 - lambda) ** exponent on
\* [0, 1), 0 from 1 on
calculate_wall_drag_function(bubble_size_fraction, exponent) ==
    LET intermediate == bubble_size_fraction < Scale /\ bubble_size_fraction >= 0
        large == bubble_size_fraction >= Scale
    IN IF large THEN 0
       ELSE IF intermediate THEN Power(Scale - bubble_size_fraction, exponent)
       ELSE IF bubble_size_fraction < 0 THEN Scale
       ELSE NaN

\* calculate_lag without its second np.where
calculate_lag_unclamped(bubble_radius) ==
    IF bubble_radius < 0 THEN Scale ELSE Scale - bubble_radius \div 2

\* calculate_lag: np.where(r < 0, 1, 1 - 0.5 r), then np.where(r > 1, 0.5, lag)
calculate_lag(bubble_radius) ==
    LET lag == IF bubble_radius < 0 THEN Scale ELSE Scale - bubble_radius \div 2
    IN IF bubble_radius > Scale THEN Scale \div 2 ELSE lag

\* calculate_drag: np.where(r < 0, 1, (1 - r) ** exponent), then
\* np.where(r > 1, 0, drag); the power is taken only where it is kept
calculate_drag(bubble_radius, exponent) ==
    LET drag == IF bubble_radius < 0 THEN Scale
                ELSE IF bubble_radius > Scale THEN NaN
                ELSE Power(Scale - bubble_radius, exponent)
    IN IF bubble_radius > Scale THEN 0 ELSE drag

DragCalls ==
    [fn : {"calculate_wall_drag_function", "calculate_lag_function",
           "calculate_drag", "calculate_lag"},
     pc : {"called"},
     bubble_size_fraction : BubbleSizeFractions,
     drag_exponent : DragExponents,
     result : {NaN}]

CalculateWallDragFunction ==
    /\ call.fn = "calculate_wall_drag_function"
    /\ call.pc = "called"
    /\ call' = [call EXCEPT !.pc = "returned",
                  !.result = calculate_wall_drag_function(call.bubble_size_fraction,
                                                          call.drag_exponent)]
    /\ UNCHANGED <<phaseVars, solveVars, batchVars, stepVars>>

CalculateLagFunction ==
    /\ call.fn = "calculate_lag_function"
    /\ call.pc = "called"
    /\ call' = [call EXCEPT !.pc = "returned",
                  !.result = calculate_lag_function(call.bubble_size_fraction)]
    /\ UNCHANGED <<phaseVars, solveVars, batchVars, stepVars>>

CalculateDrag ==
    /\ call.fn = "calculate_drag"
    /\ call.pc = "called"
    /\ call' = [call EXCEPT !.pc = "returned",
                  !.result = calculate_drag(call.bubble_size_fraction,
                                            call.drag_exponent)]
    /\ UNCHANGED <<phaseVars, solveVars, batchVars, stepVars>>

CalculateLag ==
    /\ call.fn = "calculate_lag"
    /\ call.pc = "called"
    /\ call' = [call EXCEPT !.pc = "returned",
                  !.result = calculate_lag(call.bubble_size_fraction)]
    /\ UNCHANGED <<phaseVars, solveVars, batchVars, stepVars>>

DragReturned ==
    call.fn \in {"calculate_wall_drag_function", "calculate_drag"} /\ call.pc = "returned"

LagReturned ==
    call.fn \in {"calculate_lag_function", "calculate_lag"} /\ call.pc = "returned"

-----------------------------------------------------------------------------
(* The gas interstitial velocity on the cell edges, from the liquid        *)
(* fraction on the cells and the two ghost cells: calculate_velocities of  *)
(* celestine/velocities.py for a single bubble size, and                   *)
(* calculate_gas_interstitial_velocity of velocities.py.  The pore throat  *)
(* scaling is its default 1 / 2, so that phi ** exponent is a square root  *)
(* and phi ** (2 * exponent) is phi.                                       *)

\* numerical_params.regularisation, the smallest positive fixed point number
regularisation == 1

\* darcy_law_params.bubble_radius_scaled
BubbleRadii == {0, Scale \div 2}

\* darcy_law_params.liquid_velocity, the liquid interstitial velocity scale
LiquidVelocities == {0, Scale \div 5}

\* liquid fraction of a cell
ProfileValues == {0, Scale \div 4, Scale}

VelocityCalls ==
    UNION {[fn : {"calculate_velocities", "calculate_gas_interstitial_velocity"},
            pc : {"called"},
            liquid_fraction : [1 .. n + 2 -> ProfileValues],
            B : BuoyancyValues,
            bubble_radius_scaled : BubbleRadii,
            liquid_velocity : LiquidVelocities,
            drag_exponent : {6},
            result : {<<>>}] : n \in CellCounts}

\* geometric(ghosts): np.sqrt(ghosts[1:] * ghosts[:-1])
geometric(ghosts) ==
    [i \in 1 .. Len(ghosts) - 1 |-> ISqrt(ghosts[i + 1] * ghosts[i])]

\* bubble_radius_scaled / (liquid_fraction ** exponent + reg), one edge
calculate_bubble_size_fraction(bubble_radius_scaled, liquid_fraction) ==
    (bubble_radius_scaled * Scale) \div (ISqrt(liquid_fraction * Scale) + regularisation)

\* drag_function * bubble_size_fraction ** 2 on the edges; where the drag
\* function is 0 the product is 0
calculate_mono_wall_drag_factor(liquid_fraction, cfg) ==
    LET edges == geometric(liquid_fraction)
    IN [i \in 1 .. Len(edges) |->
          LET bubble_size_fraction ==
                 calculate_bubble_size_fraction(cfg.bubble_radius_scaled, edges[i])
              drag_function ==
                 calculate_wall_drag_function(bubble_size_fraction, cfg.drag_exponent)
          IN IF drag_function = 0 THEN 0
             ELSE NMul(drag_function, NMul(bubble_size_fraction, bubble_size_fraction))]

calculate_mono_lag_factor(liquid_fraction, cfg) ==
    LET edges == geometric(liquid_fraction)
    IN [i \in 1 .. Len(edges) |->
          calculate_lag_function(
             calculate_bubble_size_fraction(cfg.bubble_radius_scaled, edges[i]))]

\* B * wall_drag_factor * geometric(liquid_fraction) ** (2 * exponent)
\*   + liquid_interstitial_velocity * lag_factor
calculate_gas_interstitial_velocity(liquid_fraction, liquid_interstitial_velocity, wall_drag_factor, lag_factor, cfg) ==
    LET edges == geometric(liquid_fraction)
    IN [i \in 1 .. Len(edges) |->
          cfg.B * NMul(wall_drag_factor[i], edges[i])
             + NMul(liquid_interstitial_velocity, lag_factor[i])]

\* geometric(liquid_fraction) * liquid_velocity / 2
calculate_liquid_darcy_velocity(liquid_fraction, cfg) ==
    LET edges == geometric(liquid_fraction)
    IN [i \in 1 .. Len(edges) |-> NMul(edges[i], cfg.liquid_velocity) \div 2]

\* np.full((I + 1,), frame_velocity) with the default frame velocity 0
calculate_frame_velocity(liquid_fraction) ==
    [i \in 1 .. Len(liquid_fraction) - 1 |-> 0]

\* calculate_velocities with bubble_size_distribution_type = "mono"
calculate_velocities(liquid_fraction, cfg) ==
    LET wall_drag_factor == calculate_mono_wall_drag_factor(liquid_fraction, cfg)
        lag_factor == calculate_mono_lag_factor(liquid_fraction, cfg)
    IN [Vg |-> calculate_gas_interstitial_velocity(liquid_fraction, cfg.liquid_velocity,
                                                   wall_drag_factor, lag_factor, cfg),
        Wl |-> calculate_liquid_darcy_velocity(liquid_fraction, cfg),
        V |-> calculate_frame_velocity(liquid_fraction)]

\* calculate_bubble_radius of velocities.py on the edges
calculate_bubble_radius(liquid_fraction, params) ==
    LET edges == geometric(liquid_fraction)
    IN [i \in 1 .. Len(edges) |->
          calculate_bubble_size_fraction(params.bubble_radius_scaled, edges[i])]

\* calculate_gas_interstitial_velocity of velocities.py: return B * drag
velocities_calculate_gas_interstitial_velocity(liquid_fraction, params) ==
    LET bubble_radius == calculate_bubble_radius(liquid_fraction, params)
    IN [i \in 1 .. Len(bubble_radius) |->
          params.B * calculate_drag(bubble_radius[i], params.drag_exponent)]

CalculateVelocities ==
    /\ call.fn = "calculate_velocities"
    /\ call.pc = "called"
    /\ call' = [call EXCEPT !.pc = "returned",
                  !.result = calculate_velocities(call.liquid_fraction, call)]
    /\ UNCHANGED <<phaseVars, solveVars, batchVars, stepVars>>

CalculateGasInterstitialVelocity ==
    /\ call.fn = "calculate_gas_interstitial_velocity"
    /\ call.pc = "called"
    /\ call' = [call EXCEPT !.pc = "returned",
                  !.result =
                     [Vg |-> velocities_calculate_gas_interstitial_velocity(
                                call.liquid_fraction, call)]]
    /\ UNCHANGED <<phaseVars, solveVars, batchVars, stepVars>>

\* C19: with bubble_radius_scaled = 0 the gas interstitial velocity that the
\* velocity computation returns is 0 on every edge, for every liquid
\* fraction profile.
C19_NoBubblesNoGasVelocity ==
    (/\ call.fn \in {"calculate_velocities", "calculate_gas_interstitial_velocity"}
     /\ call.pc = "returned"
     /\ call.bubble_radius_scaled = 0)
       => \A i \in 1 .. Len(call.result.Vg) : call.result.Vg[i] = 0

-----------------------------------------------------------------------------
(* The depth of the ice ocean boundary.  Cells and edges are numbered from *)
(* the bottom of the domain: edge k is the bottom edge of cell k, at       *)
(* height -1 + (k - 1) / I, and the last edge is the top of the domain at  *)
(* height 0.                                                               *)

\* initialise_grids: the edges -1 + i * step, i = 0 .. I
edge_grid(number_of_cells) ==
    [k \in 1 .. number_of_cells + 1 |-> -Scale + ((k - 1) * Scale) \div number_of_cells]

\* liquid fraction of a cell: partly frozen, liquid, and just above 1
DepthProfileValues == {Scale \div 2, Scale, Scale + 1}

DepthCalls ==
    UNION {[fn : {"calculate_ice_ocean_boundary_depth"}, pc : {"called"},
            liquid_fraction : [1 .. n -> DepthProfileValues],
            edge_grid : {edge_grid(n)},
            result : {[raised |-> FALSE, depth |-> NaN]}] : n \in CellCounts}

\* the least element of a nonempty set of numbers
Least(S) == CHOOSE x \in S : \A y \in S : x <= y

\* the function without the case of a completely liquid domain
ice_ocean_boundary_depth_without_liquid_case(liquid_fraction, edges) ==
    LET below == {i \in 1 .. Len(liquid_fraction) : liquid_fraction[i] < Scale}
        index == IF below = {} THEN 0 ELSE Least(below) - 1
    IN IF index = 0 THEN [raised |-> TRUE, depth |-> NaN]
       ELSE [raised |-> FALSE, depth |-> -edges[index + 1]]

\* the function with the bottom edge as the depth of a domain frozen to
\* the bottom
ice_ocean_boundary_depth_at_bottom_edge(liquid_fraction, edges) ==
    LET below == {i \in 1 .. Len(liquid_fraction) : liquid_fraction[i] < Scale}
        argmax == IF below = {} THEN 0 ELSE Least(below) - 1
        index == IF \A i \in 1 .. Len(liquid_fraction) : liquid_fraction[i] = Scale
                 THEN Len(edges) - 1
                 ELSE argmax
    IN [raised |-> FALSE, depth |-> -edges[index + 1]]

\* calculate_ice_ocean_boundary_depth: index = np.argmax(liquid_fraction < 1),
\* which is 0 when no cell is below 1; the top edge when every cell equals 1;
\* ValueError when index is 0; else (-1) * edge_grid[index].  index counts
\* from 0, the sequences here from 1.
calculate_ice_ocean_boundary_depth(liquid_fraction, edges) ==
    LET below == {i \in 1 .. Len(liquid_fraction) : liquid_fraction[i] < Scale}
        argmax == IF below = {} THEN 0 ELSE Least(below) - 1
        index == IF \A i \in 1 .. Len(liquid_fraction) : liquid_fraction[i] = Scale
                 THEN Len(edges) - 1
                 ELSE argmax
    IN IF index = 0 THEN [raised |-> TRUE, depth |-> NaN]
       ELSE [raised |-> FALSE, depth |-> -edges[index + 1]]

CalculateIceOceanBoundaryDepth ==
    /\ call.fn = "calculate_ice_ocean_boundary_depth"
    /\ call.pc = "called"
    /\ call' = [call EXCEPT !.pc = "returned",
                  !.result = calculate_ice_ocean_boundary_depth(call.liquid_fraction,
                                                                call.edge_grid)]
    /\ UNCHANGED <<phaseVars, solveVars, batchVars, stepVars>>

DepthReturned ==
    call.fn = "calculate_ice_ocean_boundary_depth" /\ call.pc = "returned"

\* the cells whose liquid fraction is below 1
CellsBelowOne == {i \in 1 .. Len(call.liquid_fraction) : call.liquid_fraction[i] < Scale}

FullyLiquid == \A i \in 1 .. Len(call.liquid_fraction) : call.liquid_fraction[i] = Scale

\* C20 (as stated): calculate_ice_ocean_boundary_depth returns the positive
\* depth of the bottom edge of the first cell from the bottom whose liquid
\* fraction is below 1, and returns depth 0 when every cell is fully liquid.
C20_DepthOfFirstFrozenCell ==
    DepthReturned =>
       /\ CellsBelowOne # {} =>
             /\ ~call.result.raised
             /\ call.result.depth = -call.edge_grid[Least(CellsBelowOne)]
             /\ call.result.depth > 0
       /\ FullyLiquid => (~call.result.raised /\ call.result.depth = 0)

\* C20 (amended): when the first cell from the bottom whose liquid fraction
\* is below 1 is not the bottom cell, the function returns the positive depth
\* of the bottom edge of that cell; when it is the bottom cell the function
\* raises ValueError; when every cell is fully liquid it returns depth 0.
C20_DepthOfFirstFrozenCellAboveBottom ==
    DepthReturned =>
       /\ (CellsBelowOne # {} /\ Least(CellsBelowOne) > 1) =>
             /\ ~call.result.raised
             /\ call.result.depth = -call.edge_grid[Least(CellsBelowOne)]
             /\ call.result.depth > 0
       /\ (CellsBelowOne # {} /\ Least(CellsBelowOne) = 1) => call.result.raised
       /\ FullyLiquid => (~call.result.raised /\ call.result.depth = 0)

\* three cells, the bottom one liquid and the middle one partly frozen: the
\* boundary is at the bottom edge of the middle cell, two thirds deep
C20_Witness ==
    /\ DepthReturned
    /\ call.liquid_fraction = <<Scale, Scale \div 2, Scale \div 2>>
    /\ ~call.result.raised
    /\ call.result.depth = -call.edge_grid[2]
    /\ call.result.depth > Scale \div 2

-----------------------------------------------------------------------------
(* The brine convection sink of Rees Jones and Worster: the Rayleigh       *)
(* number of the cells, the convecting region and the heat, salt and gas   *)
(* sinks.  The arrays are those of the cells of the domain (the slice      *)
(* [1:-1] of the fields of state_BCs), bottom cell first.  A quotient by 0 *)
(* is written NaN, as every value that is not a finite number.             *)

\* darcy_law_params.Rayleigh_salt, Rayleigh_critical and convection_strength
Rayleigh_salt == 44105
Rayleigh_critical == 40
convection_strength == 30

\* initialise_grids: the centers -1 + (2 i + 1) * step / 2, i = 0 .. I - 1
center_grid(number_of_cells) ==
    [i \in 1 .. number_of_cells |-> -Scale + ((2 * i - 1) * Scale) \div (2 * number_of_cells)]

\* calculate_permeability without porosity threshold: liquid_fraction ** 3
calculate_permeability(liquid_fraction) ==
    (((liquid_fraction * liquid_fraction) \div Scale) * liquid_fraction) \div Scale

\* calculate_integrated_mean_permeability for z the center of cell i: 0 below
\* the ice; else (ice_depth + z + step / 2) * hmean(permeabilities) / step,
\* the harmonic mean being 0 when a permeability is 0
calculate_integrated_mean_permeability(i, liquid_fraction, ice_depth, cell_centers) ==
    LET z == cell_centers[i]
        cells == 1 .. Len(liquid_fraction)
        ice_mask == {j \in cells : cell_centers[j] > -ice_depth /\ cell_centers[j] <= z}
        size == Cardinality(ice_mask)
        permeabilities ==
            [j \in cells |-> calculate_permeability(liquid_fraction[j]) \div size]
        inverses == [j \in cells |-> IF j \in ice_mask
                                     THEN (Scale * Scale) \div permeabilities[j]
                                     ELSE 0]
        harmonic_mean == IF \E j \in ice_mask : permeabilities[j] = 0
                         THEN 0
                         ELSE (size * Scale * Scale) \div Sum(inverses)
        grid_step == Scale \div Len(liquid_fraction)
    IN IF z < -ice_depth THEN 0
       ELSE ((ice_depth + z + grid_step \div 2) * harmonic_mean) \div grid_step

\* calculate_Rayleigh: Rayleigh_salt * (ice_depth + cell_centers)
\*   * averaged_permeabilities * liquid_salinity, a plain number in each
\* cell; the ValueError of the depth leaves the function
calculate_Rayleigh(cell_centers, edges, liquid_salinity, liquid_fraction) ==
    LET ice_depth == calculate_ice_ocean_boundary_depth(liquid_fraction, edges)
    IN IF ice_depth.raised
       THEN [raised |-> TRUE, ice_depth |-> NaN, Rayleigh_number |-> <<>>]
       ELSE [raised |-> FALSE, ice_depth |-> ice_depth.depth,
             Rayleigh_number |->
               [i \in 1 .. Len(liquid_fraction) |->
                  (((((Rayleigh_salt * (ice_depth.depth + cell_centers[i])) \div Scale)
                      * calculate_integrated_mean_permeability(
                           i, liquid_fraction, ice_depth.depth, cell_centers)) \div Scale)
                    * liquid_salinity[i]) \div Scale]]

\* get_convecting_region_height: NaN when every cell is below critical, else
\* the top edge of the highest cell at or above critical
get_convecting_region_height(Rayleigh_number, edges) ==
    LET indices == {i \in 1 .. Len(Rayleigh_number) : Rayleigh_number[i] >= Rayleigh_critical}
    IN IF \A i \in 1 .. Len(Rayleigh_number) : Rayleigh_number[i] - Rayleigh_critical < 0
       THEN NaN
       ELSE edges[(CHOOSE i \in indices : \A j \in indices : j <= i) + 1]

\* get_effective_Rayleigh_number: the largest excess over critical, 0 when
\* there is none
get_effective_Rayleigh_number(Rayleigh_number) ==
    LET excess == {0} \cup {Rayleigh_number[i] - Rayleigh_critical :
                              i \in {j \in 1 .. Len(Rayleigh_number) :
                                        Rayleigh_number[j] >= Rayleigh_critical}}
    IN CHOOSE x \in excess : \A y \in excess : y <= x

\* calculate_brine_channel_sink: the sink strength, convection_strength times
\* the effective Rayleigh number, in the cells of the ice up to the
\* convecting region height, and 0 in the others
calculate_brine_channel_sink(liquid_fraction, liquid_salinity, cell_centers, edges) ==
    LET Ra == calculate_Rayleigh(cell_centers, edges, liquid_salinity, liquid_fraction)
        height == get_convecting_region_height(Ra.Rayleigh_number, edges)
        strength == convection_strength * get_effective_Rayleigh_number(Ra.Rayleigh_number)
    IN IF Ra.raised
       THEN [raised |-> TRUE, sink |-> <<>>]
       ELSE [raised |-> FALSE,
             sink |-> [i \in 1 .. Len(liquid_fraction) |->
                         IF /\ ~IsNaN(height)
                            /\ cell_centers[i] >= -Ra.ice_depth
                            /\ cell_centers[i] <= height
                         THEN strength ELSE 0]]

NoSink == [raised |-> FALSE, error |-> "", sink |-> <<>>]

zeros_like(array) == [i \in 1 .. Len(array) |-> 0]

\* calculate_heat_sink: zeros when the parameterisation is off, else
\* sink * temperature
calculate_heat_sink(state_BCs, cfg) ==
    LET channel == calculate_brine_channel_sink(
                      state_BCs.liquid_fraction, state_BCs.liquid_salinity,
                      center_grid(Len(state_BCs.liquid_fraction)),
                      edge_grid(Len(state_BCs.liquid_fraction)))
    IN IF ~cfg.brine_convection_parameterisation
       THEN [NoSink EXCEPT !.sink = zeros_like(state_BCs.liquid_fraction)]
       ELSE IF channel.raised
       THEN [NoSink EXCEPT !.raised = TRUE,
                           !.error = "Ice ocean interface has reached bottom of domain"]
       ELSE [NoSink EXCEPT !.sink =
               [i \in 1 .. Len(channel.sink) |->
                  NMul(channel.sink[i], state_BCs.temperature[i])]]

\* calculate_salt_sink: zeros when the parameterisation is off, else
\* sink * (liquid_salinity + concentration_ratio)
calculate_salt_sink(state_BCs, cfg) ==
    LET channel == calculate_brine_channel_sink(
                      state_BCs.liquid_fraction, state_BCs.liquid_salinity,
                      center_grid(Len(state_BCs.liquid_fraction)),
                      edge_grid(Len(state_BCs.liquid_fraction)))
    IN IF ~cfg.brine_convection_parameterisation
       THEN [NoSink EXCEPT !.sink = zeros_like(state_BCs.liquid_fraction)]
       ELSE IF channel.raised
       THEN [NoSink EXCEPT !.raised = TRUE,
                           !.error = "Ice ocean interface has reached bottom of domain"]
       ELSE [NoSink EXCEPT !.sink =
               [i \in 1 .. Len(channel.sink) |->
                  NMul(channel.sink[i], NAdd(state_BCs.liquid_salinity[i], conc))]]

\* bubble_term of calculate_gas_sink: zeros without the coupling to the
\* horizontal flow; else 2 * gas_fraction * geometric(lag_factor)
\* / liquid_fraction, where lag_factor has one entry fewer than there are
\* cells and its geometric mean two fewer.  Arrays of different lengths are
\* combined only when one of them has length 1 (ValueError otherwise).
gas_sink_bubble_term(state_BCs, cfg) ==
    LET liquid_fraction == state_BCs.liquid_fraction
        lag_factor == calculate_mono_lag_factor(liquid_fraction, cfg)
        mean == geometric(lag_factor)
        size == IF Len(liquid_fraction) = 1 THEN Len(mean) ELSE Len(liquid_fraction)
        At(array, i) == IF Len(array) = 1 THEN array[1] ELSE array[i]
    IN IF ~cfg.couple_bubble_to_horizontal_flow
       THEN [raised |-> FALSE, term |-> zeros_like(liquid_fraction)]
       ELSE IF Len(mean) # Len(liquid_fraction) /\ Len(mean) # 1 /\ Len(liquid_fraction) # 1
       THEN [raised |-> TRUE, term |-> <<>>]
       ELSE [raised |-> FALSE,
             term |-> [i \in 1 .. size |->
                         NDiv(NMul(2 * At(state_BCs.gas_fraction, i), At(mean, i)),
                              At(liquid_fraction, i))]]

\* calculate_gas_sink: zeros when the parameterisation is off, else
\* sink * (expansion_coefficient * dissolved_gas + bubble_term)
calculate_gas_sink(state_BCs, cfg) ==
    LET channel == calculate_brine_channel_sink(
                      state_BCs.liquid_fraction, state_BCs.liquid_salinity,
                      center_grid(Len(state_BCs.liquid_fraction)),
                      edge_grid(Len(state_BCs.liquid_fraction)))
        bubble_term == gas_sink_bubble_term(state_BCs, cfg)
        At(array, i) == IF Len(array) = 1 THEN array[1] ELSE array[i]
    IN IF ~cfg.brine_convection_parameterisation
       THEN [NoSink EXCEPT !.sink = zeros_like(state_BCs.liquid_fraction)]
       ELSE IF channel.raised
       THEN [NoSink EXCEPT !.raised = TRUE,
                           !.error = "Ice ocean interface has reached bottom of domain"]
       ELSE IF bubble_term.raised
       THEN [NoSink EXCEPT !.raised = TRUE,
                           !.error = "operands could not be broadcast together"]
       ELSE [NoSink EXCEPT !.sink =
               [i \in 1 .. Len(bubble_term.term) |->
                  NMul(At(channel.sink, i),
                       NAdd(NMul(chi, At(state_BCs.dissolved_gas, i)),
                            bubble_term.term[i]))]]

\* StateBCs.calculate_brine_convection_sink: the three sinks, in this order
calculate_brine_convection_sink(state_BCs, cfg) ==
    LET heat_sink == calculate_heat_sink(state_BCs, cfg)
        salt_sink == calculate_salt_sink(state_BCs, cfg)
        gas_sink == calculate_gas_sink(state_BCs, cfg)
        raised == heat_sink.raised \/ salt_sink.raised \/ gas_sink.raised
    IN [raised |-> raised,
        error |-> IF heat_sink.raised THEN heat_sink.error
                  ELSE IF salt_sink.raised THEN salt_sink.error
                  ELSE gas_sink.error,
        heat_sink |-> IF raised THEN <<>> ELSE heat_sink.sink,
        salt_sink |-> IF raised THEN <<>> ELSE salt_sink.sink,
        gas_sink |-> IF raised THEN <<>> ELSE gas_sink.sink]

\* liquid fraction, liquid salinity and gas fraction of a cell
SinkLiquidFractions == {0, Scale \div 2, Scale}
SinkSalinities == {0, Scale \div 5}
SinkGasFractions == {0, Scale \div 10}

SinkCalls ==
    UNION {[fn : {"calculate_brine_convection_sink"}, pc : {"called"},
            liquid_fraction : [1 .. n -> SinkLiquidFractions],
            liquid_salinity : {[i \in 1 .. n |-> s] : s \in SinkSalinities},
            temperature : {[i \in 1 .. n |-> -(Scale \div 5)]},
            dissolved_gas : {[i \in 1 .. n |-> Scale]},
            gas_fraction : {[i \in 1 .. n |-> f] : f \in SinkGasFractions},
            brine_convection_parameterisation : BOOLEAN,
            couple_bubble_to_horizontal_flow : BOOLEAN,
            bubble_radius_scaled : {Scale \div 2},
            result : {[raised |-> FALSE, error |-> "", heat_sink |-> <<>>,
                       salt_sink |-> <<>>, gas_sink |-> <<>>]}] : n \in CellCounts}

CalculateBrineConvectionSink ==
    /\ call.fn = "calculate_brine_convection_sink"
    /\ call.pc = "called"
    /\ call' = [call EXCEPT !.pc = "returned",
                  !.result = calculate_brine_convection_sink(call, call)]
    /\ UNCHANGED <<phaseVars, solveVars, batchVars, stepVars>>

SinkReturned ==
    call.fn = "calculate_brine_convection_sink" /\ call.pc = "returned"

\* the Rayleigh number of the cells of the call exceeds critical in no cell
BelowCriticalEverywhere ==
    LET n == Len(call.liquid_fraction)
        Ra == calculate_Rayleigh(center_grid(n), edge_grid(n), call.liquid_salinity,
                                 call.liquid_fraction)
    IN /\ ~Ra.raised
       /\ \A i \in 1 .. n : Ra.Rayleigh_number[i] <= Rayleigh_critical

AllZero(sink) == \A i \in 1 .. Len(sink) : sink[i] = 0

\* C22: the heat, salt and gas sinks of brine convection are zero in every
\* cell when the brine convection flag is off, and also when it is on but
\* the Rayleigh number exceeds the critical value in no cell.
C22_SinksZeroWithoutConvection ==
    (/\ SinkReturned
     /\ (~call.brine_convection_parameterisation \/ BelowCriticalEverywhere))
       => /\ ~call.result.raised
          /\ Len(call.result.heat_sink) = Len(call.liquid_fraction)
          /\ Len(call.result.salt_sink) = Len(call.liquid_fraction)
          /\ Len(call.result.gas_sink) = Len(call.liquid_fraction)
          /\ AllZero(call.result.heat_sink)
          /\ AllZero(call.result.salt_sink)
          /\ AllZero(call.result.gas_sink)

-----------------------------------------------------------------------------
(* The RK23 driver: ScipySolver.solve, whose right hand side ode_fun takes  *)
(* the brine convection sinks of the state it is evaluated on.              *)

\* max_step = THERMAL_DIFFUSION_TIMESTEP_LIMIT * step^2 = 0.1 / I^2 of the
\* RK23 driver, at least one tick
max_step(cfg) ==
    LET m == TimeUnit \div (10 * cfg.I * cfg.I)
    IN IF m < 1 THEN 1 ELSE m

\* ForcingConfig.load_forcing_data: the four arrays read from the Barrow
\* data file become attributes of the forcing configuration
load_forcing_data(forcing_config) ==
    [forcing_config EXCEPT
       !.attributes = @ \cup {"barrow_top_temp", "barrow_bottom_temp",
                              "barrow_ocean_days", "barrow_days"}]

load_forcing_data_if_needed(cfg) ==
    IF cfg.forcing_config.temperature_forcing_choice = "barrow_2009"
    THEN [cfg EXCEPT !.forcing_config = load_forcing_data(@)]
    ELSE cfg

\* ScipySolver.solve up to the call of solve_ivp: the forcing data is
\* loaded if needed (np.genfromtxt raises when the file cannot be read),
\* then the initial state is made
ScipySolveBegin ==
    /\ solver.variant = "scipy"
    /\ run.pc = "start"
    /\ \E readable \in BOOLEAN :
         IF solver.forcing_config.temperature_forcing_choice = "barrow_2009" /\ ~readable
         THEN /\ run' = [run EXCEPT !.pc = "raised",
                                    !.message = "celestine/forcing_data/BRW09.txt not found."]
              /\ solver' = solver
         ELSE /\ run' = [run EXCEPT !.pc = "loop", !.time = 0]
              /\ solver' = load_forcing_data_if_needed(solver)
    /\ UNCHANGED <<phaseVars, batchVars, stepVars, callVars>>

\* the states ode_fun is evaluated on during a step: k liquid cells under
\* partly frozen ones, k = 0 .. I
OdeStates(I) ==
    {[liquid_fraction |-> [i \in 1 .. I |-> IF i <= k THEN Scale ELSE Scale \div 2],
      liquid_salinity |-> [i \in 1 .. I |-> Scale \div 5],
      temperature |-> [i \in 1 .. I |-> -(Scale \div 5)],
      dissolved_gas |-> [i \in 1 .. I |-> Scale],
      gas_fraction |-> [i \in 1 .. I |-> 0]] : k \in 0 .. I}

\* ode_fun: the derivative is the flux divergence minus the sinks.  The
\* ValueError of a sink leaves ode_fun and solve_ivp, and so does that of
\* solve_ivp on a derivative that has not three entries for each cell.
derivative_with_sink(sink, cfg) ==
    IF sink.raised
    THEN [raised |-> TRUE, error |-> sink.error]
    ELSE IF Len(sink.gas_sink) # cfg.I
    THEN [raised |-> TRUE, error |-> "operands could not be broadcast together"]
    ELSE [raised |-> FALSE, error |-> ""]

ode_fun(state_BCs, cfg) ==
    derivative_with_sink(calculate_brine_convection_sink(state_BCs, cfg), cfg)

\* the run after a step of solve_ivp of size `size' in which ode_fun was
\* evaluated on state_BCs and gave `derivative'
scipy_step(r, derivative, state_BCs, cfg, size, salt_min) ==
    LET evaluated == [r EXCEPT
                        !.liquid_fraction = state_BCs.liquid_fraction,
                        !.depth_calculated = cfg.brine_convection_parameterisation]
    IN IF derivative.raised
       THEN [evaluated EXCEPT !.pc = "raised", !.message = derivative.error]
       ELSE [evaluated EXCEPT !.time = r.time + size,
                              !.steps = r.steps + 1,
                              !.step_time = r.time,
                              !.step_size = size,
                              !.timestep = size,
                              !.salt_min = salt_min]

\* one step of solve_ivp over [0, T]: the driver picks the size, at most
\* max_step and never past T, and evaluates ode_fun; an exception of
\* ode_fun leaves solve
ScipySolveStep ==
    /\ solver.variant = "scipy"
    /\ run.pc = "loop"
    /\ run.time < solver.total_time
    /\ \E h \in 1 .. max_step(solver), salt_min \in SaltMinima,
          state_BCs \in OdeStates(solver.I) :
         run' = scipy_step(run, ode_fun(state_BCs, solver), state_BCs, solver,
                           IF run.time + h > solver.total_time
                           THEN solver.total_time - run.time ELSE h,
                           salt_min)
    /\ UNCHANGED <<solver, phaseVars, batchVars, stepVars, callVars>>

\* solve_ivp has reached T: the solution is stored and 0 returned
ScipySolveEnd ==
    /\ solver.variant = "scipy"
    /\ run.pc = "loop"
    /\ ~(run.time < solver.total_time)
    /\ run' = [run EXCEPT !.pc = "returned", !.code = 0]
    /\ UNCHANGED <<solver, phaseVars, batchVars, stepVars, callVars>>

\* C23: the configuration is read-only throughout a solve: no attribute of
\* the Config or of its nested parameter objects is added or changed
\* between the start and the end of a solve.
C23_ConfigReadOnlyDuringSolve == [][solver' = solver]_vars

\* C21: when the depth of the ice ocean boundary is calculated for a state
\* whose bottom cell has liquid fraction below 1, the calculation raises
\* its fatal error, and the run ends there: no step is retried or taken
\* after it.
C21_FrozenBottomAbortsRun ==
    /\ []((run.depth_calculated /\ run.liquid_fraction[1] < Scale)
            => /\ run.pc = "raised"
               /\ run.message = "Ice ocean interface has reached bottom of domain")
    /\ [][run.pc = "raised" => run' = run]_vars

\* the second step of a run met a state frozen to the bottom
C21_Witness ==
    /\ run.pc = "raised"
    /\ run.depth_calculated
    /\ run.liquid_fraction[1] < Scale
    /\ run.steps = 1
    /\ run.message = "Ice ocean interface has reached bottom of domain"

-----------------------------------------------------------------------------
(* The explicit step: take_timestep and advance.                           *)
(*                                                                         *)
(* Arrays live in `objects', a sequence in which an array is known by its  *)
(* position.  An array given to a step carries its numbers; an array a     *)
(* step makes carries the arrays it was computed from and the timestep it  *)
(* was computed with, and its numbers where the step is a forward Euler    *)
(* step of fluxes that are given.                                          *)

\* CFL_limit * step and Courant_limit * step**2, in ticks of time
CFL_limit_step == 8
Courant_limit_step_squared == 4
\* the most calls of take_timestep followed in one call of advance
MaxTakes == 4

GivenArray(kind, content) ==
    [kind |-> kind, content |-> content, made_from |-> {}, timestep |-> 0]

\* np.zeros(...) filled from the arrays `made_from'
NewArray(kind, content, made_from, timestep) ==
    [kind |-> kind, content |-> content, made_from |-> made_from, timestep |-> timestep]

PrimaryArrays(state) == {state.enthalpy, state.salt, state.gas}
StateArrays(state) == PrimaryArrays(state) \cup {state.pressure}

Abs(x) == IF x < 0 THEN -x ELSE x
Min2(a, b) == IF b < a THEN b ELSE a
Minimum(S) == CHOOSE x \in S : \A y \in S : x <= y

\* grids.upwind
upwind(ghosts, velocity) ==
    [e \in 1 .. Len(velocity) |->
        (IF velocity[e] > 0 THEN velocity[e] ELSE 0) * ghosts[e]
        + (IF velocity[e] < 0 THEN velocity[e] ELSE 0) * ghosts[e + 1]]

\* the stability limit of take_timestep: np.where picks 1e-10 as the speed
\* of an edge that carries no gas, which puts the edge far beyond the
\* Courant limit
calculate_min_timestep(gas_fraction, Vg) ==
    LET flux == upwind(gas_fraction, Vg)
        CFL_timesteps == [e \in 1 .. Len(Vg) |->
                             IF Abs(flux[e]) > 0
                             THEN CFL_limit_step \div Abs(Vg[e])
                             ELSE CFL_limit_step * Scale * Scale]
        Courant_timesteps == Courant_limit_step_squared
        CFL_min_timestep == Minimum({CFL_timesteps[e] : e \in 1 .. Len(Vg)})
        Courant_min_timestep == Courant_timesteps
    IN Min2(CFL_min_timestep, Courant_min_timestep)

\* take_timestep of the Lax-Friedrichs solver.  state.gas_fraction and
\* state.Vg are what calculate_enthalpy_method and calculate_velocities give
\* for the arrays of `state'.
lax_friedrich_take_timestep(objects, state, time, timestep) ==
    LET n == Len(objects)
        old == StateArrays(state)
        new_enthalpy == NewArray("enthalpy", <<>>, old, timestep)
        new_salt == NewArray("salt", <<>>, old, timestep)
        new_gas == NewArray("gas", <<>>, old, timestep)
        \* new_permeability and new_gas_fraction come from the new fields
        pressure_forcing == NewArray("pressure_forcing", <<>>,
                                     {n + 1, n + 2, n + 3} \cup old, timestep)
        pressure_matrix == NewArray("pressure_matrix", <<>>, {n + 1, n + 2, n + 3}, 0)
        new_pressure == NewArray("pressure", <<>>, {n + 4, n + 5}, 0)
    IN [objects |-> objects \o <<new_enthalpy, new_salt, new_gas, pressure_forcing,
                                 pressure_matrix, new_pressure>>,
        new_state |-> [enthalpy |-> n + 1, salt |-> n + 2, gas |-> n + 3,
                       pressure |-> n + 6],
        new_time |-> time + timestep,
        min_timestep |-> calculate_min_timestep(state.gas_fraction, state.Vg),
        solved |-> <<[matrix |-> n + 5, forcing |-> n + 4, solution |-> n + 6]>>]

\* a step that keeps one pressure matrix and refills it
take_timestep_reusing_pressure_matrix(objects, state, time, timestep) ==
    LET taken == lax_friedrich_take_timestep(objects, state, time, timestep)
        n == Len(objects)
        earlier == {id \in 1 .. n : objects[id].kind = "pressure_matrix"}
    IN IF earlier = {} THEN taken
       ELSE LET kept == Minimum(earlier)
            IN [taken EXCEPT
                  !.objects = [id \in 1 .. Len(taken.objects) |->
                                  IF id = kept THEN taken.objects[n + 5]
                                  ELSE taken.objects[id]],
                  !.solved = <<[matrix |-> kept, forcing |-> n + 4,
                                solution |-> n + 6]>>]

\* a step whose stability limit follows the timestep it was given
take_timestep_limit_below_timestep(objects, state, time, timestep) ==
    [lax_friedrich_take_timestep(objects, state, time, timestep)
        EXCEPT !.min_timestep = IF timestep > 1 THEN timestep - 1 ELSE 1]

\* SolverTemplate.take_timestep, as the Lax-Friedrichs solver fills it in
take_timestep(objects, state, time, timestep) ==
    lax_friedrich_take_timestep(objects, state, time, timestep)

\* advance up to the loop: the first take_timestep
advance_take(c) ==
    LET taken == take_timestep(c.objects, c.state, c.time, c.timestep)
    IN [c EXCEPT !.pc = "loop",
                 !.objects = taken.objects,
                 !.new_state = taken.new_state,
                 !.new_time = taken.new_time,
                 !.min_timestep = taken.min_timestep,
                 !.takes = Append(@, [heap_before |-> Len(c.objects),
                                      timestep |-> c.timestep,
                                      min_timestep |-> taken.min_timestep,
                                      new_state |-> taken.new_state,
                                      solved |-> taken.solved])]

\* a pass of the loop that steps on from the fields it has just computed
advance_retake_from_new_state(c) ==
    LET timestep == c.min_timestep
        from == [c.state EXCEPT !.enthalpy = c.new_state.enthalpy,
                                !.salt = c.new_state.salt,
                                !.gas = c.new_state.gas,
                                !.pressure = c.new_state.pressure]
        taken == take_timestep(c.objects, from, c.new_time, timestep)
    IN [c EXCEPT !.timestep = timestep,
                 !.objects = taken.objects,
                 !.new_state = taken.new_state,
                 !.new_time = taken.new_time,
                 !.min_timestep = taken.min_timestep,
                 !.takes = Append(@, [heap_before |-> Len(c.objects),
                                      timestep |-> timestep,
                                      min_timestep |-> taken.min_timestep,
                                      new_state |-> taken.new_state,
                                      solved |-> taken.solved])]

\* one pass of "while timestep > min_timestep": the timestep becomes
\* min_timestep and the step is taken again from the fields advance was given
advance_retake(c) ==
    LET timestep == c.min_timestep
        taken == take_timestep(c.objects, c.state, c.time, timestep)
    IN [c EXCEPT !.timestep = timestep,
                 !.objects = taken.objects,
                 !.new_state = taken.new_state,
                 !.new_time = taken.new_time,
                 !.min_timestep = taken.min_timestep,
                 !.takes = Append(@, [heap_before |-> Len(c.objects),
                                      timestep |-> timestep,
                                      min_timestep |-> taken.min_timestep,
                                      new_state |-> taken.new_state,
                                      solved |-> taken.solved])]

\* the function advance of the Lax-Friedrichs solver always loops,
\* SolverTemplate.advance only with adaptive_timestepping
advance_loops(c) == c.variant = "lxf" \/ c.adaptive_timestepping

AdvanceTimesteps == {1, 3, 6}
AdvanceVgValues == {-2, 0, 2, 8}
GasFractionProfiles(n) ==
    {[i \in 1 .. n + 2 |-> IF i <= k THEN 0 ELSE Scale \div 10] : k \in 0 .. n + 2}

NoState == [enthalpy |-> 0, salt |-> 0, gas |-> 0, pressure |-> 0]

GivenFields(n) ==
    <<GivenArray("enthalpy", [i \in 1 .. n + 2 |-> -Scale]),
      GivenArray("salt", [i \in 1 .. n + 2 |-> 0]),
      GivenArray("gas", [i \in 1 .. n + 2 |-> Scale \div 10]),
      GivenArray("pressure", [i \in 1 .. n + 2 |-> 0])>>

AdvanceCalls ==
    UNION {[fn : {"advance"}, pc : {"called"},
            variant : {"template", "lxf"},
            adaptive_timestepping : BOOLEAN,
            objects : {GivenFields(n)},
            given : {GivenFields(n)},
            state : [enthalpy : {1}, salt : {2}, gas : {3}, pressure : {4},
                     gas_fraction : GasFractionProfiles(n),
                     Vg : [1 .. n + 1 -> AdvanceVgValues]],
            time : {0},
            timestep : AdvanceTimesteps,
            new_state : {NoState},
            new_time : {0},
            min_timestep : {0},
            takes : {<<>>}] : n \in CellCounts}

AdvanceTakeTimestep ==
    /\ call.fn = "advance"
    /\ call.pc = "called"
    /\ call' = advance_take(call)
    /\ UNCHANGED <<phaseVars, solveVars, batchVars, stepVars>>

AdvanceRetakeTimestep ==
    /\ call.fn = "advance"
    /\ call.pc = "loop"
    /\ advance_loops(call)
    /\ call.timestep > call.min_timestep
    /\ Len(call.takes) < MaxTakes
    /\ call' = advance_retake(call)
    /\ UNCHANGED <<phaseVars, solveVars, batchVars, stepVars>>

AdvanceReturn ==
    /\ call.fn = "advance"
    /\ call.pc = "loop"
    /\ ~(advance_loops(call) /\ call.timestep > call.min_timestep)
    /\ call' = [call EXCEPT !.pc = "returned"]
    /\ UNCHANGED <<phaseVars, solveVars, batchVars, stepVars>>

\* State.calculate_enthalpy_method: six new arrays made from the primary
\* fields and set as attributes of the state
closure_kinds ==
    <<"temperature", "liquid_fraction", "gas_fraction", "solid_fraction",
      "liquid_salinity", "dissolved_gas">>

state_calculate_enthalpy_method(objects, state) ==
    LET n == Len(objects)
    IN [objects |-> objects \o [k \in 1 .. Len(closure_kinds) |->
                                   NewArray(closure_kinds[k], <<>>,
                                            PrimaryArrays(state), 0)],
        state |-> [state EXCEPT !.closure = [k \in 1 .. Len(closure_kinds) |-> n + k]]]

\* bc.enthalpy_BCs and the others: the field with its two ghost cells, in an
\* array of its own
field_BCs(field) == NewArray("BCs", <<>>, {field}, 0)

\* StateBCs(state): each field of the state with its boundary conditions
StateBCs(objects, state) ==
    LET n == Len(objects)
        fields == <<state.enthalpy, state.salt, state.gas, state.pressure>>
                      \o state.closure
    IN [objects |-> objects \o [k \in 1 .. Len(fields) |->
                                   field_BCs(fields[k])],
        state_BCs |-> [k \in 1 .. Len(fields) |-> n + k]]

\* a reduced step that subtracts the flux divergence from the arrays of the
\* state it was given
reduced_take_timestep_in_place(objects, state, fluxes, timestep) ==
    LET I == Len(objects[state.enthalpy].content)
        D_e == get_difference_matrix(I, I)
        stepped(id, flux) ==
            [objects[id] EXCEPT
               !.content = take_forward_euler_step(@, flux, timestep, D_e)]
    IN [objects |-> [id \in 1 .. Len(objects) |->
                        IF id = state.enthalpy THEN stepped(id, fluxes.heat_flux)
                        ELSE IF id = state.salt THEN stepped(id, fluxes.salt_flux)
                        ELSE IF id = state.gas THEN stepped(id, fluxes.gas_flux)
                        ELSE objects[id]],
        state |-> state,
        new_state |-> state]

\* ReducedSolver.take_timestep.  `fluxes' are what calculate_heat_flux,
\* calculate_salt_flux and calculate_gas_flux give for the state.
reduced_take_timestep(objects, state, fluxes, timestep) ==
    LET I == Len(objects[state.enthalpy].content)
        D_e == get_difference_matrix(I, I)
        full == state_calculate_enthalpy_method(objects, state)
        with_BCs == StateBCs(full.objects, full.state)
        n == Len(with_BCs.objects)
        from == {with_BCs.state_BCs[k] : k \in 1 .. Len(with_BCs.state_BCs)}
        new_enthalpy ==
            NewArray("enthalpy",
                     take_forward_euler_step(objects[state.enthalpy].content,
                                             fluxes.heat_flux, timestep, D_e),
                     from \cup {state.enthalpy}, timestep)
        new_salt ==
            NewArray("salt",
                     take_forward_euler_step(objects[state.salt].content,
                                             fluxes.salt_flux, timestep, D_e),
                     from \cup {state.salt}, timestep)
        new_gas ==
            NewArray("gas",
                     take_forward_euler_step(objects[state.gas].content,
                                             fluxes.gas_flux, timestep, D_e),
                     from \cup {state.gas}, timestep)
        \* State.__init__ without a pressure: np.full_like(self.enthalpy, 0)
        new_pressure == NewArray("pressure", [i \in 1 .. I |-> 0], {n + 1}, 0)
    IN [objects |-> with_BCs.objects \o <<new_enthalpy, new_salt, new_gas, new_pressure>>,
        state |-> full.state,
        new_state |-> [enthalpy |-> n + 1, salt |-> n + 2, gas |-> n + 3,
                       pressure |-> n + 4, closure |-> <<>>]]

StepFluxArrays(n) ==
    {[heat_flux |-> [e \in 1 .. n + 1 |-> IF e = k THEN f ELSE 0],
      salt_flux |-> [e \in 1 .. n + 1 |-> f],
      gas_flux |-> [e \in 1 .. n + 1 |-> IF e = k THEN 0 ELSE f]] :
        f \in FluxValues, k \in 1 .. n + 1}

ReducedGivenFields(n) ==
    <<GivenArray("enthalpy", [i \in 1 .. n |-> -Scale]),
      GivenArray("salt", [i \in 1 .. n |-> 0]),
      GivenArray("gas", [i \in 1 .. n |-> Scale \div 10]),
      GivenArray("pressure", [i \in 1 .. n |-> 0])>>

ReducedStepCalls ==
    UNION {[fn : {"take_timestep"}, pc : {"called"},
            objects : {ReducedGivenFields(n)},
            given : {ReducedGivenFields(n)},
            state : {[enthalpy |-> 1, salt |-> 2, gas |-> 3, pressure |-> 4,
                      closure |-> <<>>]},
            fluxes : StepFluxArrays(n),
            timestep : TimestepValues,
            new_state : {[enthalpy |-> 0, salt |-> 0, gas |-> 0, pressure |-> 0,
                          closure |-> <<>>]}] : n \in CellCounts}

ReducedTakeTimestep ==
    /\ call.fn = "take_timestep"
    /\ call.pc = "called"
    /\ LET taken == reduced_take_timestep(call.objects, call.state, call.fluxes,
                                          call.timestep)
       IN call' = [call EXCEPT !.pc = "returned",
                               !.objects = taken.objects,
                               !.state = taken.state,
                               !.new_state = taken.new_state]
    /\ UNCHANGED <<phaseVars, solveVars, batchVars, stepVars>>

StepTaken ==
    \/ call.fn = "take_timestep" /\ call.pc = "returned"
    \/ call.fn = "advance" /\ call.pc \in {"loop", "returned"}

\* C24: a timestep leaves the enthalpy, salt and gas arrays of the state it
\* starts from as they were, and the state it returns holds none of the
\* arrays of the state it started from.
C24_StepLeavesInputStateAlone ==
    StepTaken =>
        /\ \A id \in PrimaryArrays(call.state) : call.objects[id] = call.given[id]
        /\ StateArrays(call.new_state) \cap StateArrays(call.state) = {}

\* a reduced step whose fluxes changed the fields
C24_Witness ==
    /\ call.fn = "take_timestep"
    /\ call.pc = "returned"
    /\ call.objects[call.new_state.enthalpy].content
           # call.objects[call.state.enthalpy].content
    /\ call.objects[call.new_state.gas].content # call.objects[call.state.gas].content
    /\ call.state.closure # <<>>


\* the pressure system of the k-th take_timestep of the call of advance
PressureSystem(k) == call.takes[k].solved[1]

C27_AdaptiveStepWithinStabilityMinimum ==
    (call.fn = "advance" /\ call.pc = "returned" /\ advance_loops(call)) =>
        LET last == call.takes[Len(call.takes)]
        IN /\ call.timestep <= call.min_timestep
           /\ call.timestep = last.timestep
           /\ call.min_timestep = last.min_timestep
           /\ call.new_state = last.new_state
           /\ \A id \in PrimaryArrays(call.new_state) :
                 /\ call.objects[id].made_from = StateArrays(call.state)
                 /\ call.objects[id].timestep = call.timestep
           /\ \A id \in StateArrays(call.state) : call.objects[id] = call.given[id]
           /\ call.new_time = call.time + call.timestep

\* a step retaken at the stability minimum, below the timestep first tried
C27_Witness ==
    /\ call.fn = "advance"
    /\ call.pc = "returned"
    /\ advance_loops(call)
    /\ Len(call.takes) = 2
    /\ call.timestep < call.takes[1].timestep
    /\ call.timestep = call.min_timestep

\* C28: whatever the fields and the starting timestep, advance calls
\* take_timestep at most twice: after one retry the timestep is the
\* stability minimum and the loop ends.
C28_AtMostOneRetry ==
    call.fn = "advance" =>
        /\ Len(call.takes) <= 2
        /\ Len(call.takes) = 2 => ~(call.timestep > call.min_timestep)

\* a call of advance that retried once and returned
C28_Witness ==
    /\ call.fn = "advance"
    /\ call.pc = "returned"
    /\ Len(call.takes) = 2
    /\ call.takes[1].timestep > call.takes[1].min_timestep
    /\ call.takes[2].timestep = call.takes[1].min_timestep

-----------------------------------------------------------------------------
(* Solves one after another in one process.                                *)
(*                                                                         *)
(* `objects' holds what the solves construct, each with the solve that     *)
(* made it; State_class holds the attributes of the class State itself.    *)

\* the times at which the driver evaluates ode_fun in a solve
EvaluationTimes == <<0, 1>>

SolveConfigs == [name : {"a", "b"}, I : CellCounts]
SolveLists == UNION {[1 .. k -> SolveConfigs] : k \in 1 .. 2}

UnsetConfig == [name |-> "", I |-> 0]

NewProcess(list) ==
    [fn |-> "solve", pc |-> "init", list |-> list, k |-> 1, evaluations |-> 0,
     State_class |-> [cfg |-> UnsetConfig, time |-> -1],
     class_reads |-> {}, object_reads |-> {},
     objects |-> <<>>, D_e |-> 0, D_g |-> 0, grids |-> 0,
     outputs |-> <<>>, results |-> <<>>]

\* a solver that takes the difference operators of the solver before it
solver_init_sharing_operators(c) ==
    LET cfg == c.list[c.k]
        n == Len(c.objects)
        made == {id \in 1 .. n : c.objects[id].kind = "D_e"}
    IN IF made = {}
       THEN [c EXCEPT !.pc = "ode",
               !.objects = @ \o <<[kind |-> "D_e", owner |-> c.k,
                                   value |-> get_difference_matrix(cfg.I, cfg.I)],
                                  [kind |-> "D_g", owner |-> c.k,
                                   value |-> get_difference_matrix(cfg.I + 1, cfg.I)],
                                  [kind |-> "Grids", owner |-> c.k,
                                   value |-> center_grid(cfg.I)]>>,
               !.D_e = n + 1, !.D_g = n + 2, !.grids = n + 3]
       ELSE [c EXCEPT !.pc = "ode"]

\* SolverTemplate.__init__ and _get_ode_fun: the difference operators and
\* the grid of the solve are made from its configuration
solver_init(c) ==
    LET cfg == c.list[c.k]
        n == Len(c.objects)
    IN [c EXCEPT !.pc = "ode",
          !.objects = @ \o <<[kind |-> "D_e", owner |-> c.k,
                              value |-> get_difference_matrix(cfg.I, cfg.I)],
                             [kind |-> "D_g", owner |-> c.k,
                              value |-> get_difference_matrix(cfg.I + 1, cfg.I)],
                             [kind |-> "Grids", owner |-> c.k,
                              value |-> center_grid(cfg.I)]>>,
          !.D_e = n + 1, !.D_g = n + 2, !.grids = n + 3]

\* State.init_from_stacked_state: cls.cfg and cls.time are set on the class,
\* then cls(cfg, time, ...) sets self.cfg and self.time on the new state
init_from_stacked_state(c, time) ==
    LET cfg == c.list[c.k]
    IN [c EXCEPT !.State_class = [cfg |-> cfg, time |-> time],
                 !.objects = Append(@, [kind |-> "State", owner |-> c.k,
                                        value |-> [cfg |-> cfg, time |-> time]])]

\* state.<name>: the attribute of the instance, and that of the class when
\* the instance has none
state_attribute(c, state, name) ==
    IF name \in DOMAIN c.objects[state].value
    THEN [value |-> c.objects[state].value[name], class_reads |-> {}]
    ELSE [value |-> c.State_class[name], class_reads |-> {name}]

\* one evaluation of ode_fun: the state is unpacked and the right-hand side
\* computed on the grid and with the operators of the solve
solve_ode_fun(c, time) ==
    LET unpacked == init_from_stacked_state(c, time)
        state == Len(unpacked.objects)
        cfg == state_attribute(unpacked, state, "cfg")
        at == state_attribute(unpacked, state, "time")
        output == [I |-> cfg.value.I, name |-> cfg.value.name, time |-> at.value,
                   centers |-> unpacked.objects[unpacked.grids].value,
                   D_e |-> unpacked.objects[unpacked.D_e].value,
                   D_g |-> unpacked.objects[unpacked.D_g].value]
    IN [unpacked EXCEPT
          !.evaluations = @ + 1,
          !.class_reads = @ \cup cfg.class_reads \cup at.class_reads,
          !.object_reads = @ \cup {<<c.k, id>> : id \in {state, unpacked.grids,
                                                         unpacked.D_e, unpacked.D_g}},
          !.outputs = Append(@, output)]

\* the end of a solve: its result is what the evaluations gave
solve_return(c) ==
    [c EXCEPT !.pc = IF c.k = Len(c.list) THEN "done" ELSE "init",
              !.k = IF c.k = Len(c.list) THEN c.k ELSE c.k + 1,
              !.evaluations = 0,
              !.outputs = <<>>,
              !.results = Append(@, c.outputs)]

RECURSIVE evaluate_from(_, _)
evaluate_from(c, e) ==
    IF e > Len(EvaluationTimes) THEN c
    ELSE evaluate_from(solve_ode_fun(c, EvaluationTimes[e]), e + 1)

\* the result of solving cfg in a process that has solved nothing before
solve_alone(cfg) ==
    solve_return(evaluate_from(solver_init(NewProcess(<<cfg>>)), 1)).results[1]

SolveCalls == {NewProcess(list) : list \in SolveLists}

SolveInit ==
    /\ call.fn = "solve"
    /\ call.pc = "init"
    /\ call' = solver_init(call)
    /\ UNCHANGED <<phaseVars, solveVars, batchVars, stepVars>>

SolveOdeFun ==
    /\ call.fn = "solve"
    /\ call.pc = "ode"
    /\ call.evaluations < Len(EvaluationTimes)
    /\ call' = solve_ode_fun(call, EvaluationTimes[call.evaluations + 1])
    /\ UNCHANGED <<phaseVars, solveVars, batchVars, stepVars>>

SolveReturn ==
    /\ call.fn = "solve"
    /\ call.pc = "ode"
    /\ call.evaluations = Len(EvaluationTimes)
    /\ call' = solve_return(call)
    /\ UNCHANGED <<phaseVars, solveVars, batchVars, stepVars>>

\* C26: a solve reads only the grid, states and difference operators it made
\* itself and no attribute kept on a class, and nothing a solve made is
\* changed afterwards, so the result of solving a configuration is the same
\* whatever was solved before it in the process.
C26_SolvesShareNoMutableData ==
    /\ [](call.fn = "solve" =>
            /\ \A k \in 1 .. Len(call.results) :
                  call.results[k] = solve_alone(call.list[k])
            /\ call.class_reads = {}
            /\ \A r \in call.object_reads : call.objects[r[2]].owner = r[1])
    /\ [][(call.fn = "solve" /\ call'.fn = "solve") =>
             \A id \in 1 .. Len(call.objects) : call'.objects[id] = call.objects[id]]_vars

\* a second solve, on a different grid, after a first that left its
\* configuration on the class State
C26_Witness ==
    /\ call.fn = "solve"
    /\ call.pc = "done"
    /\ Len(call.results) = 2
    /\ call.list[1].I # call.list[2].I
    /\ call.State_class.cfg = call.list[2]
    /\ call.results[2][1].I = call.list[2].I

-----------------------------------------------------------------------------
(* Nucleation in the disequilibrium model.                                 *)

\* np.hstack
hstack(arrays) ==
    LET RECURSIVE stack(_)
        stack(k) == IF k = 0 THEN <<>> ELSE stack(k - 1) \o arrays[k]
    IN stack(Len(arrays))

\* the rate Da * (bulk_dissolved_gas - saturation) where the liquid is
\* supersaturated and -Da * gas_fraction elsewhere, on the cell centers
nucleation_rate(state_BCs, cfg) ==
    LET I == Len(state_BCs.bulk_dissolved_gas) - 2
        Da == cfg.damkohler_number
        bulk_dissolved_gas == [i \in 1 .. I |-> state_BCs.bulk_dissolved_gas[i + 1]]
        liquid_fraction == [i \in 1 .. I |-> state_BCs.liquid_fraction[i + 1]]
        saturation == [i \in 1 .. I |-> (chi * liquid_fraction[i]) \div Scale]
        gas_fraction == [i \in 1 .. I |-> state_BCs.gas_fraction[i + 1]]
        is_saturated == [i \in 1 .. I |-> bulk_dissolved_gas[i] > saturation[i]]
    IN [i \in 1 .. I |->
           IF is_saturated[i] THEN Da * (bulk_dissolved_gas[i] - saturation[i])
           ELSE -Da * gas_fraction[i]]

\* a nucleation term that feeds the bubbles without taking from the
\* dissolved gas
nucleation_without_dissolved_gas_term(state_BCs, cfg) ==
    LET nucleation == nucleation_rate(state_BCs, cfg)
        zeros == zeros_like(nucleation)
    IN IF cfg.model = "EQM" THEN hstack(<<zeros, zeros, zeros>>)
       ELSE hstack(<<zeros, zeros, zeros, nucleation>>)

\* _calculate_nucleation: the term of each equation, stacked in the order
\* enthalpy, salt, bulk dissolved gas, gas fraction
calculate_nucleation(state_BCs, cfg) ==
    LET nucleation == nucleation_rate(state_BCs, cfg)
        zeros == zeros_like(nucleation)
    IN IF cfg.model = "EQM" THEN hstack(<<zeros, zeros, zeros>>)
       ELSE hstack(<<zeros, zeros, [i \in 1 .. Len(nucleation) |-> -nucleation[i]],
                     nucleation>>)

BulkDissolvedGasValues == {0, Scale \div 50, Scale \div 20}
DamkohlerNumbers == {1, 3}

NucleationCalls ==
    UNION {[fn : {"calculate_nucleation"}, pc : {"called"},
            model : {"EQM", "DISEQ"},
            damkohler_number : DamkohlerNumbers,
            bulk_dissolved_gas : [1 .. n + 2 -> BulkDissolvedGasValues],
            liquid_fraction : {[i \in 1 .. n + 2 |-> IF i <= k THEN Scale ELSE Scale \div 2] :
                                  k \in 0 .. n + 2},
            gas_fraction : {[i \in 1 .. n + 2 |-> f] : f \in SinkGasFractions},
            result : {<<>>}] : n \in CellCounts}

CalculateNucleation ==
    /\ call.fn = "calculate_nucleation"
    /\ call.pc = "called"
    /\ call' = [call EXCEPT !.pc = "returned",
                            !.result = calculate_nucleation(call, call)]
    /\ UNCHANGED <<phaseVars, solveVars, batchVars, stepVars>>

\* C30: in the disequilibrium model the nucleation term of the gas fraction
\* equation is, in every cell, the negative of the term of the bulk
\* dissolved gas equation, and the terms of the enthalpy and salt equations
\* are zero: the two gas terms of a cell sum to zero.
C30_NucleationConservesBulkGas ==
    (call.fn = "calculate_nucleation" /\ call.pc = "returned" /\ call.model = "DISEQ") =>
        LET I == Len(call.bulk_dissolved_gas) - 2
            term == call.result
        IN /\ Len(term) = 4 * I
           /\ \A i \in 1 .. I :
                 /\ term[i] = 0
                 /\ term[I + i] = 0
                 /\ term[3 * I + i] = -term[2 * I + i]
                 /\ term[2 * I + i] + term[3 * I + i] = 0

\* a supersaturated cell where bubbles form next to a cell where they dissolve
C30_Witness ==
    /\ call.fn = "calculate_nucleation"
    /\ call.pc = "returned"
    /\ call.model = "DISEQ"
    /\ Len(call.result) = 8
    /\ call.result[7] > 0
    /\ call.result[5] < 0
    /\ call.result[8] < 0
    /\ call.result[6] > 0

-----------------------------------------------------------------------------
(* The specifications: each takes one part of the program through its    *)
(* operations and leaves the state of the other parts alone.               *)

NoSolver == "none"
NoRun == "none"
NoBatch == "none"
NoStep == "none"
NoCall == "none"

InitPhase ==
    /\ enthalpy \in EnthalpyValues \cup {NaN}
    /\ salt \in SaltValues
    /\ gas \in GasValues
    /\ phase_masks = NoMasks
    /\ closure = NoClosure
    /\ solver = NoSolver
    /\ run = NoRun
    /\ batch = NoBatch
    /\ step = NoStep
    /\ call = NoCall

NextPhase ==
    \/ FullGetPhaseMasks
    \/ ReducedCalculateEnthalpyMethod
    \/ FullCalculateEnthalpyMethod
    \/ CalculateEnthalpyFromTemp

SpecPhase == InitPhase /\ [][NextPhase]_vars

InitSolve ==
    /\ solver \in Configs
    /\ run = NotStarted
    /\ enthalpy = 0
    /\ salt = 0
    /\ gas = 0
    /\ phase_masks = NoMasks
    /\ closure = NoClosure
    /\ batch = NoBatch
    /\ step = NoStep
    /\ call = NoCall

NextSolve ==
    \/ ExplicitSolveBegin
    \/ ExplicitSolveStep
    \/ ExplicitSolveEnd
    \/ BackwardEulerSolveBegin
    \/ BackwardEulerSolveStep
    \/ BackwardEulerSolveEnd
    \/ ScipySolveBegin
    \/ ScipySolveStep
    \/ ScipySolveEnd

SpecSolve == InitSolve /\ [][NextSolve]_vars

InitBatch ==
    /\ batch \in {NewBatch(list) : list \in ConfigLists}
    /\ enthalpy = 0
    /\ salt = 0
    /\ gas = 0
    /\ phase_masks = NoMasks
    /\ closure = NoClosure
    /\ solver = NoSolver
    /\ run = NoRun
    /\ step = NoStep
    /\ call = NoCall

NextBatch ==
    \/ RunBatchBody
    \/ RunBatchReturn

SpecBatch == InitBatch /\ [][NextBatch]_vars

InitStep ==
    /\ step \in {NewStep(entry, st) : entry \in Entries, st \in StepStates}
    /\ enthalpy = 0
    /\ salt = 0
    /\ gas = 0
    /\ phase_masks = NoMasks
    /\ closure = NoClosure
    /\ solver = NoSolver
    /\ run = NoRun
    /\ batch = NoBatch
    /\ call = NoCall

NextStep ==
    \/ StepEnthalpyMethod
    \/ StepBoundaryConditions
    \/ StepVelocities
    \/ StepFluxes
    \/ StepReturn

SpecStep == InitStep /\ [][NextStep]_vars

InitCall ==
    /\ call \in EulerCalls \cup GuardCalls \cup DragCalls \cup VelocityCalls
                 \cup DepthCalls \cup SinkCalls \cup AdvanceCalls
                 \cup ReducedStepCalls \cup SolveCalls \cup NucleationCalls
    /\ enthalpy = 0
    /\ salt = 0
    /\ gas = 0
    /\ phase_masks = NoMasks
    /\ closure = NoClosure
    /\ solver = NoSolver
    /\ run = NoRun
    /\ batch = NoBatch
    /\ step = NoStep

NextCall ==
    \/ TakeForwardEulerStep
    \/ PreventGasRiseIntoSaturatedCell
    \/ CalculateWallDragFunction
    \/ CalculateLagFunction
    \/ CalculateDrag
    \/ CalculateLag
    \/ CalculateVelocities
    \/ CalculateGasInterstitialVelocity
    \/ CalculateIceOceanBoundaryDepth
    \/ CalculateBrineConvectionSink
    \/ AdvanceTakeTimestep
    \/ AdvanceRetakeTimestep
    \/ AdvanceReturn
    \/ ReducedTakeTimestep
    \/ SolveInit
    \/ SolveOdeFun
    \/ SolveReturn
    \/ CalculateNucleation

SpecCall == InitCall /\ [][NextCall]_vars

=============================================================================
